---- MODULE Spec2Model ----
(***************************************************************************)
(* Hybrid retrieval and ranking engine of the plant-identification service *)
(* (scripts/rag/vectordb/start_api.py, feature_weights.py,                 *)
(* trait_tokenizer.py, normalize_features.py).                             *)
(*                                                                         *)
(* Conventions of the model                                                *)
(*  - Scores are fixed-point integers, SCALE units = 1.0.  A product       *)
(*    x * 0.3 is Mul(x, 3000): (x * 3000) \div SCALE.                      *)
(*  - Feature weights are integers in thousandths (0.05 = 50).             *)
(*  - Chinese text is written in ASCII.  A feature phrase is one atom:     *)
(*      husheng = 互生, duisheng = 對生, caoben = 草本, qiaomu = 喬木,     *)
(*      yuzhuangfuye = 羽狀複葉, fuye = 複葉, zihua = 紫花,                *)
(*      honghua = 紅花, jiangguo = 漿果, chengchuanguo = 成串果,           *)
(*      zonglu = 棕櫚, quanyuan = 全緣, luanxing = 卵形 (not in the        *)
(*      vocabulary), yezi = 椰子, taigang = 苔綱, tai = 苔.                *)
(*    A chinese_name is a sequence of characters, one atom each:           *)
(*      rong shu4 = 榕樹, ke = 科, shu3 = 屬, tai = 苔, xian = 蘚,         *)
(*      jue = 蕨, bai tan = 白檀, zhu tai = 株苔, sang ke = 桑科.          *)
(*  - A feature string "k=v" is the record [k |-> k, v |-> v]; a phrase    *)
(*    without "=" has k = "".                                              *)
(*  - A text field (summary, life_form, the query) is the set of the       *)
(*    atoms that occur in it; "x in text" is membership, extended by       *)
(*    SubstringOf for atoms that contain one another.                      *)
(***************************************************************************)
EXTENDS Integers, Sequences, FiniteSets, TLC

\* --------------------------------------------------------------- bounds
\* Longest candidate list the vector store returns for the primary recall.
MaxPool == 2

\* Longest candidate list the fruit-only recall returns.
MaxFruit == 1

\* --------------------------------------------------------- fixed point
SCALE == 10000

Mul(x, f) == (x * f) \div SCALE

Min(a, b) == IF a < b THEN a ELSE b

Max(a, b) == IF a > b THEN a ELSE b

RECURSIVE SumSeq(_)
SumSeq(s) == IF s = <<>> THEN 0 ELSE Head(s) + SumSeq(Tail(s))

RECURSIVE FilterSeq(_, _)
\* s restricted to the elements whose index is in keep, order preserved
FilterSeq(s, keep) ==
    IF s = <<>> THEN <<>>
    ELSE LET n == Len(s)
             front == FilterSeq(SubSeq(s, 1, n - 1), keep)
         IN IF n \in keep THEN Append(front, s[n]) ELSE front

Range(s) == {s[i] : i \in DOMAIN s}

\* a plain phrase and a k=v token, as feature strings
Phrase(p) == [k |-> "", v |-> p]

Tok(k, v) == [k |-> k, v |-> v]

HasEq(f) == f.k # ""

\* "a in b" for two atoms: the atoms of the model that contain one another
SubstringOf(a, b) ==
    \/ a = b
    \/ a = "fuye" /\ b = "yuzhuangfuye"
    \/ a = "tai" /\ b = "taigang"
    \/ a = "husheng" /\ b \in {"hushengye", "yehusheng"}
    \/ a = "duisheng" /\ b = "duisheng."

\* "a in text" for a text given as the set of its atoms
InText(a, text) == \E b \in text : SubstringOf(a, b)

\* ------------------------------------------------ vocabulary and weights
\* The FEATURE_VOCAB entries the model uses: category, English label,
\* base_w and max_cap (thousandths).
FEATURE_VOCAB ==
    [ caoben        |-> [category |-> "life_form",        en |-> "herb",           base_w |-> 20,  max_cap |-> 30],
      qiaomu        |-> [category |-> "life_form",        en |-> "tree",           base_w |-> 20,  max_cap |-> 30],
      husheng       |-> [category |-> "leaf_arrangement", en |-> "alternate",      base_w |-> 50,  max_cap |-> 60],
      duisheng      |-> [category |-> "leaf_arrangement", en |-> "opposite",       base_w |-> 50,  max_cap |-> 60],
      fuye          |-> [category |-> "leaf_type",        en |-> "compound leaf",  base_w |-> 60,  max_cap |-> 100],
      yuzhuangfuye  |-> [category |-> "leaf_type",        en |-> "pinnate leaves", base_w |-> 70,  max_cap |-> 120],
      quanyuan      |-> [category |-> "leaf_margin",      en |-> "entire",         base_w |-> 50,  max_cap |-> 70],
      zihua         |-> [category |-> "flower_color",     en |-> "purple flower",  base_w |-> 80,  max_cap |-> 120],
      honghua       |-> [category |-> "flower_color",     en |-> "red flower",     base_w |-> 60,  max_cap |-> 90],
      cushenghua    |-> [category |-> "flower_position",  en |-> "cluster",        base_w |-> 50,  max_cap |-> 80],
      jiangguo      |-> [category |-> "fruit_type",       en |-> "berry",          base_w |-> 80,  max_cap |-> 120],
      chengchuanguo |-> [category |-> "fruit_cluster",    en |-> "cluster",        base_w |-> 70,  max_cap |-> 100],
      zonglu        |-> [category |-> "special",          en |-> "palm",           base_w |-> 100, max_cap |-> 140] ]

\* the order in which the dictionary FEATURE_VOCAB lists these values
FEATURE_ORDER ==
    << "qiaomu", "caoben", "husheng", "duisheng", "fuye", "yuzhuangfuye", "quanyuan", "honghua",
       "zihua", "cushenghua", "jiangguo", "chengchuanguo", "zonglu" >>

\* the entry build_feature_index stores for a value
IndexEntry(zh_name) ==
    [name |-> zh_name, category |-> FEATURE_VOCAB[zh_name].category,
     en |-> FEATURE_VOCAB[zh_name].en, base_w |-> FEATURE_VOCAB[zh_name].base_w,
     max_cap |-> FEATURE_VOCAB[zh_name].max_cap]

RECURSIVE IndexAfter(_)
\* build_feature_index after the first n values: each value writes its
\* entry under its name and under its English label (lower-case already),
\* over whatever the key held
IndexAfter(n) ==
    IF n = 0 THEN <<>>
    ELSE LET put(zh_name) ==
                 (FEATURE_VOCAB[zh_name].en :> IndexEntry(zh_name))
                     @@ (zh_name :> IndexEntry(zh_name))
                     @@ IndexAfter(n - 1)
         IN put(FEATURE_ORDER[n])

build_feature_index == IndexAfter(Len(FEATURE_ORDER))

FEATURE_INDEX == build_feature_index

\* the keys of FEATURE_INDEX.  A "k=v" string is never a key, nor is a
\* phrase outside the vocabulary.
InFeatureIndex(f) == ~HasEq(f) /\ f.v \in DOMAIN FEATURE_INDEX

\* FEATURE_INDEX.get(f) for a key: the entry with its standard name
FeatureInfo(f) == FEATURE_INDEX[f.v]

GATE_ONLY_CATEGORIES == {"life_form"}

\* --------------------------------------------------------------- state
VARIABLES
    call,               \* the request being served and its entry point
    qdrant_client,      \* the global client: TRUE once connected
    feature_calculator, \* the global calculator, a member of CalculatorStates
    pc,                 \* position in the handler / hybrid_search
    candidates,         \* the candidate list of hybrid_search
    fruit_candidates,   \* the list of the fruit-only recall
    scored_candidates,  \* the dictionaries of the first loop
    results,            \* the rows of the second loop
    response,           \* what the caller receives
    embed_calls,        \* calls of encode_text made for this request
    query_vector,       \* length of the vector hybrid_search holds for query_points (0: none)
    store_calls,        \* calls of the vector store made for this request
    failure,            \* the collaborator that failed for this request
    category_embeddings,\* the global centroid table of the classifier
    classification,     \* what classify_query answered for this request
    trace,              \* the stages run so far, <<stage, point id>>
    N,                  \* self.N of the calculator whose corpus pass is run
    df,                 \* self.df of that calculator
    rare_coef,          \* self.rare_coef of that calculator
    got_weight,         \* the last answer of its get_weight
    feature_info,       \* the last answer of its calculate_feature_score
    corpus_file,        \* the data file its corpus pass read
    loads,              \* how many corpus passes have been run on that file
    tokenized,          \* the last run of key_features_to_trait_tokens
    plants,             \* the list load_plants gave to the embedding script
    canonical_seen,     \* the record its deduplication pass holds under each key
    deduplicated_plants,\* the list its deduplication pass built
    duplicates_removed, \* the counter of that pass
    passes,             \* how many times the script has run
    init_pc,            \* position of the background initialisation thread
    req                 \* the /classify request served on its own thread

\* the corpus pass of the weight calculator
weights_vars == <<N, df, rare_coef, got_weight, feature_info, corpus_file, loads>>

\* the deduplication pass of the embedding script
dedup_vars == <<plants, canonical_seen, deduplicated_plants, duplicates_removed, passes>>

\* the variables no request of the server touches
side_vars == <<weights_vars, tokenized, dedup_vars, init_pc, req>>



\* The state of the global feature_calculator: "None" (not loaded yet, or
\* no data file found) or "loaded".
CalculatorStates == {"None", "loaded"}

\* self.rare_coef of a loaded calculator (thousandths): the coefficients the
\* corpus pass left, each within [0.2, 2.5].
RareCoefSnapshot ==
    [ husheng |-> 200, duisheng |-> 450, quanyuan |-> 200, zihua |-> 1400,
      jiangguo |-> 1100, chengchuanguo |-> 2500, zonglu |-> 2000, caoben |-> 200 ]

\* self.rare_coef.get(std_name, 1.0): of the calculator of the server
\* ("loaded"), or of the calculator whose corpus pass the model runs
\* ("corpus", the dictionary rare_coef)
rare_coef_get(calc, name) ==
    IF calc = "loaded" /\ name \in DOMAIN RareCoefSnapshot THEN RareCoefSnapshot[name]
    ELSE IF calc = "corpus" /\ name \in DOMAIN rare_coef THEN rare_coef[name]
    ELSE 1000

\* 1000 * e^(2c) for c = 0, 0.1, ..., 2.6: idf / 2 >= c exactly when
\* (N + 1) / (df + 1) >= e^(2c)
EXP_2C ==
    << 1000, 1221, 1492, 1822, 2226, 2718, 3320, 4055, 4953,
       6050, 7389, 9025, 11023, 13464, 16445, 20086, 24533, 29964,
       36598, 44701, 54598, 66686, 81451, 99484, 121510, 148413, 181272 >>

\* idf / 2 = log((N + 1) / (df + 1)) / 2 in thousandths, rounded down to a
\* tenth (and to 2.6 at most)
HalfIdf(n, d) ==
    100 * (Cardinality({i \in DOMAIN EXP_2C : (n + 1) * 1000 >= (d + 1) * EXP_2C[i]}) - 1)

\* the coefficient left unclamped
RareCoefUnclamped(n, d) == HalfIdf(n, d)

\* max(0.2, min(2.5, idf / 2)), line 327
RareCoef(n, d) == Max(200, Min(2500, HalfIdf(n, d)))

\* key_features_to_trait_tokens was not run
NoTokenized == [key_features |-> <<>>, mapped |-> <<>>, trait_tokens |-> <<>>]

\* no get_weight was asked
NoWeight == [asked |-> FALSE, feature |-> "", weight |-> 0]

\* no calculate_feature_score was asked
NoFeatureInfo == [asked |-> FALSE, features |-> <<>>, total_score |-> 0]

\* nothing run yet outside the server
SideIdle ==
    /\ N = 0
    /\ df = <<>>
    /\ rare_coef = <<>>
    /\ got_weight = NoWeight
    /\ feature_info = NoFeatureInfo
    /\ corpus_file = [n |-> 0, counts |-> <<>>]
    /\ loads = 0
    /\ tokenized = NoTokenized
    /\ plants = <<>>
    /\ canonical_seen = <<>>
    /\ deduplicated_plants = <<>>
    /\ duplicates_removed = 0
    /\ passes = 0
    /\ init_pc = "unstarted"
    /\ req = [pc |-> "idle", used |-> 0, pos |-> 0, cats |-> <<>>, sims |-> <<>>]

\* FeatureWeightCalculator.get_weight
get_weight(calc, f) ==
    IF ~InFeatureIndex(f) THEN 0
    ELSE LET weight(info) == Min((info.base_w * rare_coef_get(calc, info.name)) \div 1000, info.max_cap)
         IN weight(FeatureInfo(f))

RECURSIVE PerCategoryBest(_, _, _)
\* the per_category_best dictionary after the loop over features, as a
\* function from category to the best weight (0: no entry)
PerCategoryBest(calc, features, best) ==
    IF features = <<>> THEN best
    ELSE LET put(w, cat) ==
                 IF w <= 0 \/ cat \in GATE_ONLY_CATEGORIES THEN best
                 ELSE IF best[cat] = 0 \/ w > best[cat] THEN [best EXCEPT ![cat] = w]
                 ELSE best
             category(f) == IF InFeatureIndex(f) THEN FeatureInfo(f).category ELSE "unknown"
         IN PerCategoryBest(calc, Tail(features),
                            put(get_weight(calc, Head(features)), category(Head(features))))

Categories ==
    {FEATURE_VOCAB[n].category : n \in DOMAIN FEATURE_VOCAB} \cup {"unknown"}

RECURSIVE SumOver(_, _)
SumOver(fn, dom) ==
    IF dom = {} THEN 0
    ELSE LET x == CHOOSE y \in dom : TRUE IN fn[x] + SumOver(fn, dom \ {x})

\* the total that adds the weight of every value supplied
calculate_feature_scoreSumsAll(calc, features) ==
    SumSeq([i \in DOMAIN features |-> get_weight(calc, features[i])])

\* FeatureWeightCalculator.calculate_feature_score(features)["total_score"]
calculate_feature_score(calc, features) ==
    LET best == PerCategoryBest(calc, features, [c \in Categories |-> 0])
    IN SumOver(best, Categories)

\* ------------------------------------------------------------ tokenizer
\* REVERSE_MAP of trait_tokenizer.py for the phrases of the model: the
\* Chinese synonym -> (trait, canonical) pairs of trait_vocab.json.
REVERSE_MAP ==
    [ caoben   |-> Tok("life_form", "herb"),
      qiaomu   |-> Tok("life_form", "tree"),
      husheng  |-> Tok("leaf_arrangement", "alternate"),
      duisheng |-> Tok("leaf_arrangement", "opposite"),
      quanyuan |-> Tok("leaf_margin", "entire"),
      zihua    |-> Tok("flower_color", "purple"),
      honghua  |-> Tok("flower_color", "red") ]

NoToken == Tok("", "")

\* normalize_token of trait_tokenizer.py: punctuation and whitespace go
tokenizer_normalize_token(t) ==
    CASE t = "duisheng." -> "duisheng"
      [] t = "."         -> ""
      [] OTHER           -> t

\* the two re.sub of the strip stage: a listed suffix (葉, 花, ...) goes,
\* then a leading 小
StripAffixes(tok) ==
    CASE tok = "hushengye"  -> "husheng"
      [] tok = "xiaoqiaomu" -> "qiaomu"
      [] tok = "zihua"      -> "zi"
      [] tok = "honghua"    -> "hong"
      [] OTHER              -> tok

\* what heuristic_map and suggest_rule return: None as method "none";
\* stages lists the stages consulted, in the order they were
Mapped(token, method, stages) == [token |-> token, method |-> method, stages |-> stages]

\* heuristic_map whose substring stage comes before the exact lookup
heuristic_mapContainsFirst(tok) ==
    IF tokenizer_normalize_token(tok) = "" THEN Mapped(NoToken, "none", <<>>)
    ELSE IF InText("husheng", {tokenizer_normalize_token(tok)})
    THEN Mapped(Tok("leaf_arrangement", "alternate"), "contains", <<"contains">>)
    ELSE IF InText("duisheng", {tokenizer_normalize_token(tok)})
    THEN Mapped(Tok("leaf_arrangement", "opposite"), "contains", <<"contains">>)
    ELSE IF tokenizer_normalize_token(tok) \in DOMAIN REVERSE_MAP
    THEN Mapped(REVERSE_MAP[tokenizer_normalize_token(tok)], "direct", <<"contains", "direct">>)
    ELSE Mapped(NoToken, "none", <<"contains", "direct">>)

\* heuristic_map(tok): direct, then strip, then contains
heuristic_map(tok) ==
    LET map(t) ==
            IF t = "" THEN Mapped(NoToken, "none", <<>>)
            ELSE IF t \in DOMAIN REVERSE_MAP
            THEN Mapped(REVERSE_MAP[t], "direct", <<"direct">>)
            ELSE IF StripAffixes(t) # t /\ StripAffixes(t) \in DOMAIN REVERSE_MAP
            THEN Mapped(REVERSE_MAP[StripAffixes(t)], "strip", <<"direct", "strip">>)
            ELSE IF InText("husheng", {t})
            THEN Mapped(Tok("leaf_arrangement", "alternate"), "contains", <<"direct", "strip", "contains">>)
            ELSE IF InText("duisheng", {t})
            THEN Mapped(Tok("leaf_arrangement", "opposite"), "contains", <<"direct", "strip", "contains">>)
            ELSE Mapped(NoToken, "none", <<"direct", "strip", "contains">>)
    IN map(tokenizer_normalize_token(tok))

\* suggest_rule(tok): the pattern rules
suggest_rule(tok) ==
    LET rule(t) ==
            IF t = "quanyuan" THEN Mapped(Tok("leaf_margin", "entire"), "rule", <<"rule">>)
            ELSE IF t = "juchi" THEN Mapped(Tok("leaf_margin", "serrate"), "rule", <<"rule">>)
            ELSE Mapped(NoToken, "none", IF t = "" THEN <<>> ELSE <<"rule">>)
    IN rule(tokenizer_normalize_token(tok))

\* the body of the loop of key_features_to_trait_tokens for one feature:
\* heuristic_map, then suggest_rule when it found nothing.  A "k=v"
\* string maps to nothing.
MapKeyFeature(kf) ==
    LET both(h, r) == IF h.method # "none" THEN h
                      ELSE Mapped(r.token, r.method, h.stages \o r.stages)
    IN IF HasEq(kf) THEN Mapped(NoToken, "none", <<"direct", "strip", "contains", "rule">>)
       ELSE both(heuristic_map(kf.v), suggest_rule(kf.v))

RECURSIVE key_features_to_trait_tokens(_)
\* the tokens of a list of key features, first occurrence kept
key_features_to_trait_tokens(kfs) ==
    IF kfs = <<>> THEN <<>>
    ELSE LET add(front, t) == IF t = NoToken \/ t \in Range(front) THEN front ELSE Append(front, t)
         IN add(key_features_to_trait_tokens(SubSeq(kfs, 1, Len(kfs) - 1)), MapKeyFeature(kfs[Len(kfs)]).token)

\* normalize_feature with the default rules: the longest listed prefix is
\* stripped, else the longest listed suffix (葉, 果, ... ; 花 is not listed)
normalize_feature(f) ==
    IF HasEq(f) THEN f
    ELSE CASE f.v = "fuye"          -> Phrase("fu")
           [] f.v = "yuzhuangfuye"  -> Phrase("yuzhuangfu")
           [] f.v = "jiangguo"      -> Phrase("jiang")
           [] f.v = "chengchuanguo" -> Phrase("chengchuan")
           [] OTHER                 -> f

RECURSIVE normalize_features(_)
\* normalize_features: each feature normalised, duplicates dropped
normalize_features(fs) ==
    IF fs = <<>> THEN <<>>
    ELSE LET add(front, x) == IF x.v = "" \/ x \in Range(front) THEN front ELSE Append(front, x)
         IN add(normalize_features(SubSeq(fs, 1, Len(fs) - 1)), normalize_feature(fs[Len(fs)]))

\* ---------------------------------------------------------- canonical key
\* A scientific name is the sequence of its whitespace-separated words.
\* lower() of the words of the model:
Lower(w) ==
    CASE w = "Ficus"       -> "ficus"
      [] w = "Microcarpa"  -> "microcarpa"
      [] w = "Var."        -> "var."
      [] w = "Golden"      -> "golden"
      [] w = "Lantana"     -> "lantana"
      [] w = "Livistona"   -> "livistona"
      [] w = "Dypsis"      -> "dypsis"
      [] OTHER             -> w

\* a word with the quote characters ' and " removed
StripQuotes(w) ==
    CASE w = "'Golden'" -> "Golden"
      [] w = "'"        -> ""
      [] OTHER          -> w

RankMarkers == {"var.", "subsp.", "ssp.", "f.", "cv.", "cultivar"}

\* _normalize_scientific_name: the regular expression deletes a marker
\* together with the whitespace before it (so never the first word), the
\* quotes go, whitespace collapses (empty words vanish), all lower-cased.
_normalize_scientific_name(sci) ==
    LET unmarked == FilterSeq(sci, {i \in DOMAIN sci : i = 1 \/ Lower(sci[i]) \notin RankMarkers})
        unquoted(ws) == [i \in DOMAIN ws |-> StripQuotes(ws[i])]
        words(ws)    == FilterSeq(ws, {i \in DOMAIN ws : ws[i] # ""})
        lower(ws)    == [i \in DOMAIN ws |-> Lower(ws[i])]
    IN lower(words(unquoted(unmarked)))

\* re.sub(r'[\s\-_]+', '', cname): the characters kept
NormCname(cname) == FilterSeq(cname, {i \in DOMAIN cname : cname[i] \notin {" ", "-", "_"}})

RECURSIVE JoinWith(_, _)
\* sep.join(parts): each part is a sequence of pieces, the result the
\* pieces of the parts with the separator between two parts
JoinWith(parts, sep) ==
    IF parts = <<>> THEN <<>>
    ELSE IF Len(parts) = 1 THEN Head(parts)
    ELSE Head(parts) \o <<sep>> \o JoinWith(Tail(parts), sep)

\* the key that keeps every word of the normalised scientific name
_canonical_nameAllWords(payload) ==
    LET raw == <<NormCname(payload.chinese_name),
                 IF payload.family = "" THEN <<>> ELSE <<payload.family>>,
                 IF payload.genus = "" THEN <<>> ELSE <<payload.genus>> >>
        key_parts(parts) == FilterSeq(parts, {i \in DOMAIN parts : parts[i] # <<>>})
        key(sci_normalized) ==
            IF payload.scientific_name # <<>> /\ sci_normalized # <<>>
            THEN JoinWith([i \in DOMAIN sci_normalized |-> <<sci_normalized[i]>>], " ")
            ELSE JoinWith(key_parts(raw), " | ")
    IN key(_normalize_scientific_name(payload.scientific_name))

\* _canonical_name(payload) for a dict payload: a key is the sequence of
\* its pieces, <<>> the empty string
_canonical_name(payload) ==
    LET raw == <<NormCname(payload.chinese_name),
                 IF payload.family = "" THEN <<>> ELSE <<payload.family>>,
                 IF payload.genus = "" THEN <<>> ELSE <<payload.genus>> >>
        key_parts(parts) == FilterSeq(parts, {i \in DOMAIN parts : parts[i] # <<>>})
        key(sci_normalized) ==
            IF payload.scientific_name # <<>> /\ sci_normalized # <<>>
            THEN IF Len(sci_normalized) >= 2
                 THEN <<sci_normalized[1], " ", sci_normalized[2]>>
                 ELSE sci_normalized
            ELSE JoinWith(key_parts(raw), " | ")
    IN key(_normalize_scientific_name(payload.scientific_name))

\* the empty dict that "payload or {}" puts in place of a null payload
EmptyPayload ==
    [ null |-> FALSE, chinese_name |-> <<>>, scientific_name |-> <<>>, family |-> "",
      genus |-> "", trait_tokens |-> <<>>, key_features_norm |-> {}, summary |-> {},
      life_form |-> {}, quality_score |-> 0 ]

PayloadOrEmpty(payload) == IF payload.null THEN EmptyPayload ELSE payload

\* DedupKey keyed by the point id alone
DedupKeyById(c) == <<c.id>>

\* _canonical_name(c.payload or {}) or str(c.id)
DedupKey(c) ==
    LET or_id(key) == IF key = <<>> THEN <<c.id>> ELSE key
    IN or_id(_canonical_name(PayloadOrEmpty(c.payload)))

\* ------------------------------------------------- payload classification
\* hybrid_search._is_non_species: a family / genus / book label
_is_non_species(payload) ==
    LET cname == payload.chinese_name
        n == Len(cname)
    IN /\ n > 0
       /\ \/ \E i \in 1..(n - 1) : cname[i] = "zhu4" /\ cname[i + 1] = ")"
          \/ \E i \in 1..n, q \in 1..n, j \in 1..n :
                /\ i < q /\ q < j
                /\ cname[i] \in {"ke", "shu3"}
                /\ \A x \in (i + 1)..(q - 1) : cname[x] = " "
                /\ cname[q] = "("
                /\ \A x \in (q + 1)..(j - 1) : cname[x] # ")"
                /\ cname[j] = "zhu4"
          \/ cname[n] \in {"ke", "shu3"}

\* the text of key_features + key_features_norm (the model's payloads carry
\* no raw key_features)
KfText(payload) == payload.key_features_norm

BRYO_KEYWORDS == {"taigang"}

\* family contains 苔, 蘚 or 蕨
FamilyIsBryo(family) == family \in {"shenjueke"}

_is_bryophyte_pteridophyte(payload) ==
    LET cname == payload.chinese_name
    IN \/ cname # <<>> /\ cname[Len(cname)] \in {"tai", "xian", "jue"}
       \/ FamilyIsBryo(payload.family)
       \/ \E kw \in BRYO_KEYWORDS : InText(kw, payload.summary \cup KfText(payload))

PALM_SPECIFIC_PLANT_KEYWORDS == {"zonglu", "yezi"}

_plant_has_palm_compound(payload) ==
    \E kw \in PALM_SPECIFIC_PLANT_KEYWORDS : InText(kw, KfText(payload) \cup payload.summary)

PALM_COMPOUND_QUERY_TOKENS == {"yuzhuangfuye", "fuye", "zonglu"}

STRONG_PALM_TOKENS == {"yuzhuangfuye"}

GENERIC_TOP1_BLACKLIST == { <<"bai", "tan">>, <<"zhu", "tai">> }

_get_plant_leaf_arrangement(payload) ==
    IF InText("duisheng", KfText(payload)) THEN "opposite"
    ELSE IF InText("husheng", KfText(payload)) THEN "alternate"
    ELSE "None"

\* LIFE_FORM_GROUPS, for the groups of the model
LIFE_FORM_GROUPS == [herb |-> {"caoben"}, tree |-> {"qiaomu"}]

_get_plant_life_form_group(payload) ==
    IF InText("caoben", payload.life_form) THEN "herb"
    ELSE IF InText("qiaomu", payload.life_form) THEN "tree"
    ELSE "None"

_get_plant_flower_color(payload) ==
    IF InText("zihua", KfText(payload)) THEN "purple"
    ELSE IF InText("honghua", KfText(payload)) THEN "red"
    ELSE "None"

\* the payloads of the model carry no raw_data.identification
_get_plant_leaf_type(payload) == "None"

LEAF_ARRANGEMENT_GROUP_IDS == [alternate |-> "g1", spiral |-> "g1", opposite |-> "g2", whorled |-> "g3"]

FLOWER_COLOR_GROUPS == [purple |-> "gp", pink |-> "gp", red |-> "gr", white |-> "gw"]

\* ---------------------------------------------- soft contradiction rules
\* conf_min and penalty of SOFT_RULES are in SCALE units
S1_CONF_MIN == 5000
S1_PENALTY == 2000
S2_CONF_MIN == 6000
S2_PENALTY == 1200
S3_CONF_MIN == 7000
S3_PENALTY == 2500
S4_CONF_MIN == 6000
S4_PENALTY == 1800
MAX_SOFT_COUNT == 2

NoTrait == [value |-> "", confidence |-> 0]

NoTraits == [leaf_arrangement |-> NoTrait, life_form |-> NoTrait,
             leaf_type |-> NoTrait, flower_color |-> NoTrait]

\* one rule of compute_soft_contradiction_penalty: does it fire
SoftRuleFires(rule, traits, payload) ==
    CASE rule = "S1" ->
            LET t == traits.leaf_arrangement
                plant_val == _get_plant_leaf_arrangement(payload)
            IN /\ t.value # "" /\ t.confidence >= S1_CONF_MIN
               /\ t.value \in DOMAIN LEAF_ARRANGEMENT_GROUP_IDS
               /\ plant_val # "None"
               /\ LEAF_ARRANGEMENT_GROUP_IDS[t.value] # LEAF_ARRANGEMENT_GROUP_IDS[plant_val]
      [] rule = "S2" ->
            LET t == traits.life_form
                plant_group == _get_plant_life_form_group(payload)
            IN /\ t.value # "" /\ t.confidence >= S2_CONF_MIN
               /\ t.value \in DOMAIN LIFE_FORM_GROUPS
               /\ plant_group # "None"
               /\ t.value # plant_group
               /\ LIFE_FORM_GROUPS[t.value] \cap LIFE_FORM_GROUPS[plant_group] = {}
      [] rule = "S3" ->
            LET t == traits.leaf_type
                plant_lt == _get_plant_leaf_type(payload)
            IN /\ t.value # "" /\ t.confidence >= S3_CONF_MIN
               /\ plant_lt # "None"
               /\ (t.value \in {"compound", "pinnate", "palmate", "trifoliate"}) # (plant_lt = "compound")
      [] rule = "S4" ->
            LET t == traits.flower_color
                plant_fc == _get_plant_flower_color(payload)
            IN /\ t.value # "" /\ t.confidence >= S4_CONF_MIN
               /\ plant_fc # "None"
               /\ t.value \in DOMAIN FLOWER_COLOR_GROUPS
               /\ FLOWER_COLOR_GROUPS[t.value] = "gp"
               /\ FLOWER_COLOR_GROUPS[plant_fc] = "gr"

SoftPenaltyOf(rule) ==
    CASE rule = "S1" -> S1_PENALTY [] rule = "S2" -> S2_PENALTY
      [] rule = "S3" -> S3_PENALTY [] rule = "S4" -> S4_PENALTY

\* the rule ids by decreasing penalty (sorted is stable: S3, S1, S4, S2)
SoftRulesByPenalty == <<"S3", "S1", "S4", "S2">>

\* compute_soft_contradiction_penalty: the ids of the rules charged, the
\* MAX_SOFT_COUNT heaviest of those that fire
compute_soft_contradiction_penaltyUncapped(traits, payload) ==
    FilterSeq(SoftRulesByPenalty,
              {i \in 1..4 : SoftRuleFires(SoftRulesByPenalty[i], traits, payload)})

compute_soft_contradiction_penalty(traits, payload) ==
    LET fired == FilterSeq(SoftRulesByPenalty,
                           {i \in 1..4 : SoftRuleFires(SoftRulesByPenalty[i], traits, payload)})
    IN SubSeq(fired, 1, Min(MAX_SOFT_COUNT, Len(fired)))

\* sum(p for _, p in soft_penalties)
SoftTotal(ids) == SumSeq([i \in DOMAIN ids |-> SoftPenaltyOf(ids[i])])

\* ------------------------------------------------- match_plant_features
\* a trait token of a payload that is not a string (a number, null)
NonString == [k |-> "#nonstr", v |-> ""]

IsStr(t) == t # NonString

MUST_KEYS == {"leaf_arrangement"}

\* canon_value: strip and lower-case (with the life_form synonyms)
canon_value(k, v) ==
    CASE v = "Opposite" -> "opposite"
      [] v = "Alternate" -> "alternate"
      [] k = "life_form" /\ v = "herbaceous" -> "herb"
      [] OTHER -> v

\* match_plant_features.normalize_token
normalize_token(t) == IF HasEq(t) THEN Tok(t.k, canon_value(t.k, t.v)) ELSE t

\* query_trait_tokens: the tokens the tokenizer derives from the query
\* features, then the query features that already are k=v tokens
QueryTraitTokens(query_features) ==
    key_features_to_trait_tokens(query_features)
        \o FilterSeq(query_features, {i \in DOMAIN query_features : HasEq(query_features[i])})

\* must_traits_in_query, as a set: the normalised query tokens of a
\* MUST_KEYS dimension (no FEATURE_VOCAB name marks a feature is_must)
MustTraitsInQuery(query_features) ==
    {normalize_token(t) : t \in {x \in Range(QueryTraitTokens(query_features)) : x.k \in MUST_KEYS}}

\* the Chinese patterns the fallback extracts from plant_text
zh_patterns_fallback ==
    {"husheng", "duisheng", "yuzhuangfuye", "fuye", "quanyuan", "zihua", "honghua",
     "jiangguo", "chengchuanguo", "zonglu"}

\* plant_key_features_norm as match_plant_features uses it, after the
\* fallback that reads plant_text when fewer than 2 entries are valid
PlantKfn(plant_text, kfn) ==
    IF plant_text # {} /\ Cardinality(kfn \cap DOMAIN FEATURE_VOCAB) < 2
    THEN kfn \cup {zh \in zh_patterns_fallback : InText(zh, plant_text)}
    ELSE kfn

\* "info.en.lower() in token.lower()"
EnInToken(en, t) == t.v = en

\* the first query token that carries the feature's English label
QueryTokenOf(info, qtt) ==
    LET hits == {i \in DOMAIN qtt : EnInToken(info.en, qtt[i])}
    IN IF hits = {} THEN NoToken ELSE qtt[CHOOSE i \in hits : \A j \in hits : i <= j]

\* lines 614-635: scanning plant_trait_tokens for the query token; the
\* scan stops at the first equal token and raises on a non-string before it
TokenScan(query_token, ptt) ==
    LET eq  == {i \in DOMAIN ptt : ptt[i] = query_token}
        bad == {i \in DOMAIN ptt : ~IsStr(ptt[i])}
        firstEq  == IF eq = {} THEN Len(ptt) + 1 ELSE CHOOSE i \in eq : \A j \in eq : i <= j
        firstBad == IF bad = {} THEN Len(ptt) + 1 ELSE CHOOSE i \in bad : \A j \in bad : i <= j
    IN [matched |-> eq # {} /\ firstEq < firstBad, raises |-> bad # {} /\ firstBad < firstEq]

\* one query feature against one plant: [known, matched, raises]
MatchOne(f, qtt, plant_text, ptt, kfn) ==
    IF ~InFeatureIndex(f) /\ ~InFeatureIndex(normalize_feature(f))
    THEN [known |-> FALSE, matched |-> FALSE, raises |-> FALSE]
    ELSE LET scan(query_token) ==
                 IF ptt # <<>> /\ query_token # NoToken
                 THEN TokenScan(query_token, ptt)
                 ELSE [matched |-> FALSE, raises |-> FALSE]
             byKfn(info) == /\ kfn # {}
                            /\ \/ info.name \in kfn
                               \/ \E x \in kfn : SubstringOf(x, info.name)
             byText(info) == plant_text # {} /\ InText(info.name, plant_text)
             verdict(info, s) ==
                 [known |-> TRUE,
                  matched |-> ~s.raises /\ (s.matched \/ byKfn(info) \/ byText(info)),
                  raises |-> s.raises]
             match(info) == verdict(info, scan(QueryTokenOf(info, qtt)))
         IN match(FeatureInfo(IF InFeatureIndex(f) THEN f ELSE normalize_feature(f)))

\* lines 702-753: the Must-Gate verdict
MustMatched(must, ptt) ==
    LET strs == {ptt[i] : i \in {j \in DOMAIN ptt : IsStr(ptt[j]) /\ HasEq(ptt[j])}}
        byCategory(k) == {normalize_token(t) : t \in {x \in strs : x.k = k}}
    IN \A q \in must : byCategory(q.k) = {} \/ normalize_token(q) \in byCategory(q.k)

\* match_plant_features(query_features, plant_text, plant_trait_tokens,
\* plant_key_features_norm) of a calculator calc
match_plant_features(calc, query_features, plant_text, ptt, kfn0) ==
    LET matches(qtt, kfn) ==
            [i \in DOMAIN query_features |-> MatchOne(query_features[i], qtt, plant_text, ptt, kfn)]
        result(one, hit, must, total_query_traits) ==
            [raises |-> \/ \E i \in DOMAIN query_features : one[i].raises
                        \/ must # {} /\ \E i \in DOMAIN ptt : ~IsStr(ptt[i]),
             match_score |-> SumSeq([i \in DOMAIN hit |-> get_weight(calc, hit[i])]),
             matched_features |-> [i \in DOMAIN hit |-> hit[i].v],
             coverage |-> IF total_query_traits > 0
                          THEN (Len(hit) * SCALE) \div total_query_traits ELSE 0,
             must_matched |-> MustMatched(must, ptt)]
        collect(one) ==
            result(one, FilterSeq(query_features, {i \in DOMAIN query_features : one[i].matched}),
                   MustTraitsInQuery(query_features), Len(normalize_features(query_features)))
    IN collect(matches(QueryTraitTokens(query_features), PlantKfn(plant_text, kfn0)))

\* ------------------------------------------------------------ gating chain
MUST_GATE_PENALTY == 3000
PALM_GATE_STRONG_WITH_PALM == 2500
PALM_GATE_STRONG == 3500
PALM_GATE_GENERIC == 6000
PALM_REVERSE_PENALTY == 1800
BRYO_GATE_PENALTY == 600
OVER_MATCH_PENALTY == 9500
GENERIC_TOP1_PENALTY == 8000

\* the atoms of the query text and of the feature strings
FeatureAtoms(features) == {features[i].v : i \in DOMAIN features}

\* "苔" / "蘚" / "蕨" in text
HasBryoChar(text) == \E ch \in {"tai", "xian", "jue"} : InText(ch, text)

\* query_has_bryo_fern, of the text and the features
QueryHasBryoFern(text, features) == HasBryoChar(text) \/ HasBryoChar(FeatureAtoms(features))

\* query_has_palm_compound (Gate-A)
QueryHasPalmCompound(query, features) ==
    \/ \E i \in DOMAIN features : ~HasEq(features[i]) /\ features[i].v \in PALM_COMPOUND_QUERY_TOKENS
    \/ InText("zonglu", query)

\* gate_penalty of Gate-A
GatePenalty(features) ==
    LET has_strong == \E i \in DOMAIN features : ~HasEq(features[i]) /\ features[i].v \in STRONG_PALM_TOKENS
        has_palm_in_query == \E i \in DOMAIN features : features[i] = Phrase("zonglu")
    IN IF has_strong /\ has_palm_in_query THEN PALM_GATE_STRONG_WITH_PALM
       ELSE IF has_strong THEN PALM_GATE_STRONG
       ELSE PALM_GATE_GENERIC

\* GateChain with the known order of the document: the bryophyte gate
\* ahead of the soft penalties
GateChainBryoFirst ==
    <<"base", "must_gate", "palm_gate", "palm_reverse", "bryo_gate", "soft",
      "quality", "over_match", "clamp">>

\* The stages of the second loop of hybrid_search, in the order of the code
GateChain ==
    <<"base", "must_gate", "palm_gate", "palm_reverse", "soft", "bryo_gate",
      "quality", "over_match", "clamp">>

\* one stage applied to the running hybrid_score of scored candidate c;
\* q is the call's context [query, features, traits, median_matched]
ApplyStage(stage, q, c, hybrid_score) ==
    LET payload == c.point.payload
    IN CASE stage = "base" -> c.embedding_score
         [] stage = "must_gate" ->
              IF ~c.must_matched THEN Mul(hybrid_score, MUST_GATE_PENALTY) ELSE hybrid_score
         [] stage = "palm_gate" ->
              IF QueryHasPalmCompound(q.query, q.features) /\ ~_plant_has_palm_compound(payload)
              THEN Mul(hybrid_score, GatePenalty(q.features)) ELSE hybrid_score
         [] stage = "palm_reverse" ->
              IF ~QueryHasPalmCompound(q.query, q.features) /\ _plant_has_palm_compound(payload)
              THEN Mul(hybrid_score, PALM_REVERSE_PENALTY) ELSE hybrid_score
         [] stage = "soft" ->
              LET soft_penalties == compute_soft_contradiction_penalty(q.traits, payload)
              IN IF soft_penalties # <<>>
                 THEN Max(0, hybrid_score - SoftTotal(soft_penalties)) ELSE hybrid_score
         [] stage = "bryo_gate" ->
              IF ~QueryHasBryoFern(q.query, q.features) /\ _is_bryophyte_pteridophyte(payload)
              THEN Mul(hybrid_score, BRYO_GATE_PENALTY) ELSE hybrid_score
         [] stage = "quality" ->
              IF 0 < payload.quality_score /\ payload.quality_score < SCALE
              THEN Mul(hybrid_score, payload.quality_score) ELSE hybrid_score
         [] stage = "over_match" ->
              IF q.median_matched # 0
                 /\ Len(c.matched_features) > Max(q.median_matched * 2, 6)
              THEN Mul(hybrid_score, OVER_MATCH_PENALTY) ELSE hybrid_score
         [] stage = "clamp" -> Min(SCALE, hybrid_score)

RECURSIVE ApplyChain(_, _, _, _)
ApplyChain(chain, q, c, hybrid_score) ==
    IF chain = <<>> THEN hybrid_score
    ELSE ApplyChain(Tail(chain), q, c, ApplyStage(Head(chain), q, c, hybrid_score))

\* apply_generic_top1_penalty on one result row
apply_generic_top1_penalty(row) ==
    IF row.chinese_name \in GENERIC_TOP1_BLACKLIST
    THEN [row EXCEPT !.score = Mul(row.score, GENERIC_TOP1_PENALTY)] ELSE row

RECURSIVE SortByScore(_)
\* results.sort(key=score, reverse=True): stable, descending
SortByScore(rows) ==
    IF rows = <<>> THEN <<>>
    ELSE LET n == Len(rows)
             front == SortByScore(SubSeq(rows, 1, n - 1))
             x == rows[n]
             k == Cardinality({i \in DOMAIN front : front[i].score >= x.score})
         IN SubSeq(front, 1, k) \o <<x>> \o SubSeq(front, k + 1, Len(front))

\* FeatureScore without the anti-saturation caps
FeatureScoreUncapped(features, query_total_weight, match_result) ==
    IF query_total_weight > 0
    THEN Min(SCALE, (match_result.match_score * SCALE) \div query_total_weight)
    ELSE Mul(match_result.match_score * 10, match_result.coverage)

\* feature_score of one candidate (lines 1375-1395)
FeatureScore(features, query_total_weight, match_result) ==
    LET normalised == IF query_total_weight > 0
                      THEN Min(SCALE, (match_result.match_score * SCALE) \div query_total_weight)
                      ELSE Mul(match_result.match_score * 10, match_result.coverage)
        trait_count == Len(features)
    IN IF trait_count < 4
       THEN Min(normalised, 5500 + (trait_count - 1) * 1500)
       ELSE IF trait_count = 4 THEN Min(normalised, 9000)
       ELSE normalised

\* --------------------------------------------------- points of the store
\* A payload of the corpus.  The payloads of the model carry no raw
\* key_features and no raw_data, so the fallbacks that read them yield
\* nothing.
Payload(cname, sci, family, tokens, kfn, summary, life, qs) ==
    [ null |-> FALSE, chinese_name |-> cname, scientific_name |-> sci, family |-> family,
      genus |-> "", trait_tokens |-> tokens, key_features_norm |-> kfn, summary |-> summary,
      life_form |-> life, quality_score |-> qs ]

\* The points the vector store holds: id |-> payload.
\*   ficus      榕樹 Ficus microcarpa, a tree with alternate leaves
\*   ficus_var  榕樹 Ficus microcarpa var. fujianensis, opposite, red flower
\*   lantana    馬纓丹 Lantana camara, a herb with every feature of the queries
\*   palm       黃椰子 Dypsis lutescens, quality_score 0.5
\*   moss       株苔, no scientific name, on the generic blacklist
\*   family     桑科, a family label
\*   nullpay    a point whose payload is null
\*   badtok     no identity fields, trait_tokens holds a non-string
\*   unknown    no identity fields, leaf_arrangement=unknown
Corpus ==
    [ ficus |-> Payload(<<"rong", "shu4">>, <<"Ficus", "microcarpa">>, "sangke",
                        <<Tok("life_form", "tree"), Tok("leaf_arrangement", "alternate")>>,
                        {"husheng", "quanyuan"}, {}, {"qiaomu"}, 0),
      ficus_var |-> Payload(<<"rong", "shu4">>, <<"Ficus", "microcarpa", "var.", "fujianensis">>, "sangke",
                        <<Tok("life_form", "tree"), Tok("leaf_arrangement", "opposite")>>,
                        {"duisheng", "honghua"}, {}, {"qiaomu"}, 0),
      lantana |-> Payload(<<"ma", "ying", "dan">>, <<"Lantana", "camara">>, "mabiancaoke",
                        <<Tok("life_form", "herb"), Tok("leaf_arrangement", "opposite")>>,
                        {"duisheng", "zihua", "quanyuan", "jiangguo", "chengchuanguo"}, {}, {"caoben"}, 0),
      palm |-> Payload(<<"huang", "ye", "zi">>, <<"Dypsis", "lutescens">>, "zongluke",
                        <<>>, {}, {"yezi", "yuzhuangfuye"}, {"qiaomu"}, 5000),
      moss |-> Payload(<<"zhu", "tai">>, <<>>, "", <<>>, {}, {"taigang"}, {}, 0),
      family |-> Payload(<<"sang", "ke">>, <<>>, "", <<>>, {}, {}, {}, 0),
      nullpay |-> [EmptyPayload EXCEPT !.null = TRUE],
      badtok |-> Payload(<<>>, <<>>, "", <<NonString>>, {}, {}, {}, 0),
      unknown |-> Payload(<<>>, <<>>, "", <<Tok("leaf_arrangement", "unknown")>>, {}, {}, {}, 0) ]

\* similarity scores the store returns (cosine distance: a similarity may
\* be negative)
ScoreValues == {-1000, 5000, 9000}

Point(id, score) == [id |-> id, score |-> score, payload |-> Corpus[id]]

\* the answers of query_points: up to n distinct points, by decreasing
\* similarity
RankedLists(ids, scores, n) ==
    {s \in UNION {[1..k -> {Point(id, sc) : id \in ids, sc \in scores}] : k \in 0..n} :
        /\ \A i, j \in DOMAIN s : i < j => s[i].score >= s[j].score
        /\ \A i, j \in DOMAIN s : i # j => s[i].id # s[j].id}

Pools == RankedLists(DOMAIN Corpus, ScoreValues, MaxPool)

\* the answers to the fruit-only query: the points that bear fruit
\* features, at a positive similarity
FruitPools == RankedLists({"ficus_var", "lantana"}, ScoreValues \cap {5000, 9000}, MaxFruit)

\* ------------------------------------------------------------- requests
\* The body of a POST: query is the sequence of the words of the text
\* (<<>> the empty string, <<" ">> whitespace only), guess_names a list of
\* names (a name is the sequence of its characters), traits the optional
\* dictionary of the soft rules (NoTraits: absent).
Request(query, features, guess_names, top_k, traits) ==
    [query |-> query, features |-> features, guess_names |-> guess_names,
     top_k |-> top_k, traits |-> traits]

Trait(value, confidence) == [value |-> value, confidence |-> confidence]

DEFAULT_TOP_K == 5

VisionTraits ==
    [NoTraits EXCEPT !.leaf_arrangement = Trait("opposite", 9000),
                     !.life_form = Trait("herb", 9000),
                     !.flower_color = Trait("purple", 9000)]

\* traits every rule but S3 can contradict on a tree with opposite leaves
\* and red flowers
ConflictTraits ==
    [NoTraits EXCEPT !.leaf_arrangement = Trait("alternate", 9000),
                     !.life_form = Trait("herb", 9000),
                     !.flower_color = Trait("purple", 9000)]

\* the same traits at a confidence that reaches the threshold of S1 only
FaintTraits ==
    [NoTraits EXCEPT !.leaf_arrangement = Trait("alternate", 5500),
                     !.life_form = Trait("herb", 5500),
                     !.flower_color = Trait("purple", 5500)]

Requests ==
    { Request(<<>>, <<>>, <<>>, DEFAULT_TOP_K, NoTraits),
      Request(<<" ">>, <<>>, <<>>, DEFAULT_TOP_K, NoTraits),
      Request(<<>>, <<>>, << <<>> >>, DEFAULT_TOP_K, NoTraits),
      Request(<<"hua">>, <<>>, <<>>, DEFAULT_TOP_K, NoTraits),
      Request(<<"hua">>, <<>>, <<>>, 1, VisionTraits),
      Request(<<"hua">>, <<>>, <<>>, DEFAULT_TOP_K, ConflictTraits),
      Request(<<"hua">>, <<>>, <<>>, DEFAULT_TOP_K, FaintTraits),
      Request(<<"hua">>, <<>>, <<>>, -1, NoTraits),
      Request(<<"zonglu">>, <<>>, <<>>, DEFAULT_TOP_K, NoTraits),
      Request(<<"tai">>, <<>>, <<>>, DEFAULT_TOP_K, NoTraits),
      Request(<<"hua">>, <<>>, << <<"zhu", "tai">> >>, DEFAULT_TOP_K, NoTraits),
      Request(<<>>, <<>>, << <<"rong", "shu4">> >>, DEFAULT_TOP_K, NoTraits),
      Request(<<"hua">>, <<Tok("life_form", "herb"), Tok("leaf_arrangement", "opposite")>>, <<>>,
              DEFAULT_TOP_K, NoTraits),
      Request(<<>>, <<Tok("leaf_arrangement", "unknown")>>, <<>>, DEFAULT_TOP_K, NoTraits),
      Request(<<>>, <<Phrase("caoben")>>, <<>>, DEFAULT_TOP_K, NoTraits),
      Request(<<>>, <<Phrase("duisheng"), Phrase("duisheng")>>, <<>>, DEFAULT_TOP_K, NoTraits),
      Request(<<"hua">>, <<Phrase("duisheng")>>, <<>>, DEFAULT_TOP_K, VisionTraits),
      Request(<<"hua">>, <<Phrase("duisheng"), Phrase("zihua")>>, <<>>, DEFAULT_TOP_K, NoTraits),
      Request(<<"hua">>, <<Phrase("duisheng"), Phrase("zihua"), Phrase("quanyuan")>>, <<>>,
              DEFAULT_TOP_K, NoTraits),
      Request(<<"hua">>, <<Phrase("duisheng"), Phrase("zihua"), Phrase("quanyuan"), Phrase("jiangguo")>>,
              <<>>, DEFAULT_TOP_K, NoTraits),
      Request(<<"hua">>, <<Phrase("duisheng"), Phrase("zihua"), Phrase("quanyuan"), Phrase("jiangguo"),
                Phrase("chengchuanguo")>>, <<>>, DEFAULT_TOP_K, NoTraits),
      Request(<<>>, <<Phrase("yuzhuangfuye"), Phrase("zonglu")>>, <<>>, DEFAULT_TOP_K, NoTraits),
      Request(<<"hua">>, <<Phrase("husheng"), Phrase("jiangguo"), Phrase("chengchuanguo")>>, <<>>,
              DEFAULT_TOP_K, VisionTraits) }

\* The calls the model makes: POST /hybrid-search with each request,
\* hybrid_search called directly, and POST /search with smart = false.
Calls ==
    {[entry |-> "http", req |-> r] : r \in Requests}
    \cup {[entry |-> "direct", req |-> r] : r \in {x \in Requests : x.features = <<>> /\ x.guess_names = <<>>
                                                       /\ x.traits = NoTraits /\ x.top_k = DEFAULT_TOP_K
                                                       /\ x.query \in {<<>>, <<" ">>, <<"hua">>}}}
    \cup {[entry |-> "search", req |-> r] : r \in {x \in Requests : x.features = <<>> /\ x.guess_names = <<>>
                                                       /\ x.traits = NoTraits /\ x.top_k = DEFAULT_TOP_K
                                                       /\ x.query \in {<<>>, <<"hua">>}}}
    \cup {[entry |-> e, req |-> r] : e \in {"smart", "classify"},
                                     r \in {x \in Requests : x.features = <<>> /\ x.guess_names = <<>>
                                                /\ x.traits = NoTraits /\ x.top_k = DEFAULT_TOP_K
                                                /\ x.query \in {<<>>, <<"hua">>}}}

\* ------------------------------------------------------ query classifier
\* the keys of the categories dict of _init_background_impl, in insertion
\* order
CATEGORY_ORDER == <<"plant", "animal", "artifact", "food", "other">>

PLANT_THRESHOLD == 4000

\* category_embeddings: None, or the dict given by the sequence of its
\* keys (the centroid vectors themselves are not modelled; what the model
\* keeps of them is the similarity a query has to each)
NoCentroids == [none |-> TRUE, cats |-> <<>>]

Centroids(cats) == [none |-> FALSE, cats |-> cats]

\* the cosine similarities of a query to the five centroids
SimilarityTables ==
    {[c \in Range(CATEGORY_ORDER) |->
         IF c = "plant" THEN p ELSE IF c = "animal" THEN a ELSE 1000] :
        p \in {3999, 4000, 7000}, a \in {2000, 7000}}

\* no classification was made for the request
NoClassification ==
    [ran |-> FALSE, raises |-> FALSE, category |-> "", confidence |-> 0, scores |-> <<>>,
     is_plant |-> FALSE, plant_score |-> 0, error |-> FALSE]

\* classify_query whose is_plant also asks that plant be the arg-max
classify_queryByCategory(ce, sims) ==
    IF ce.none
    THEN [ran |-> TRUE, raises |-> FALSE, category |-> "unknown", confidence |-> 0, scores |-> <<>>,
          is_plant |-> FALSE, plant_score |-> 0, error |-> TRUE]
    ELSE IF \A i \in DOMAIN ce.cats : ce.cats[i] # "plant"
    THEN [NoClassification EXCEPT !.ran = TRUE, !.raises = TRUE]
    ELSE LET best_category ==
                 ce.cats[CHOOSE i \in DOMAIN ce.cats :
                            /\ \A j \in DOMAIN ce.cats : sims[ce.cats[i]] >= sims[ce.cats[j]]
                            /\ \A j \in 1..(i - 1) : sims[ce.cats[j]] < sims[ce.cats[i]]]
         IN [ran |-> TRUE, raises |-> FALSE, category |-> best_category,
             confidence |-> sims[best_category],
             scores |-> [c \in Range(ce.cats) |-> sims[c]],
             is_plant |-> best_category = "plant" /\ sims["plant"] >= PLANT_THRESHOLD,
             plant_score |-> sims["plant"], error |-> FALSE]

\* classify_query once encode_text(query) succeeded or was not needed:
\* sims the similarity of the query to each centroid.  max(scores,
\* key=scores.get) takes the first key of the highest score and raises on
\* an empty dict; scores["plant"] raises when the key is missing.
classify_query(ce, sims) ==
    IF ce.none
    THEN [ran |-> TRUE, raises |-> FALSE, category |-> "unknown", confidence |-> 0, scores |-> <<>>,
          is_plant |-> FALSE, plant_score |-> 0, error |-> TRUE]
    ELSE IF \A i \in DOMAIN ce.cats : ce.cats[i] # "plant"
    THEN [NoClassification EXCEPT !.ran = TRUE, !.raises = TRUE]
    ELSE LET best_category ==
                 ce.cats[CHOOSE i \in DOMAIN ce.cats :
                            /\ \A j \in DOMAIN ce.cats : sims[ce.cats[i]] >= sims[ce.cats[j]]
                            /\ \A j \in 1..(i - 1) : sims[ce.cats[j]] < sims[ce.cats[i]]]
         IN [ran |-> TRUE, raises |-> FALSE, category |-> best_category,
             confidence |-> sims[best_category],
             scores |-> [c \in Range(ce.cats) |-> sims[c]],
             is_plant |-> sims["plant"] >= PLANT_THRESHOLD,
             plant_score |-> sims["plant"], error |-> FALSE]

\* the text of a string given as its words: the set of its atoms
TextOf(words) == Range(words) \ {" "}

\* the cleaned guess_names of hybrid_search: empty and one-character names
\* go, duplicates go (the names of the model are never longer than 12
\* characters and hold no forbidden word)
CleanGuessNames(raw) ==
    LET ok == FilterSeq(raw, {i \in DOMAIN raw : Len(raw[i]) >= 2})
    IN FilterSeq(ok, {i \in DOMAIN ok : \A j \in 1..(i - 1) : ok[j] # ok[i]})

\* the query argument of hybrid_search
QueryArg(c) ==
    IF c.entry = "http" /\ c.req.query = <<>>
    THEN JoinWith(c.req.guess_names, " ")
    ELSE c.req.query

\* search_query of hybrid_search, as a text (lines 1069-1103)
SearchQuery(query, features, guess_names) ==
    LET names == CleanGuessNames(guess_names)
        stripped == TextOf(query)
        base == IF stripped # {} THEN stripped
                ELSE IF names # <<>>
                     THEN UNION {Range(names[i]) : i \in 1..Min(3, Len(names))}
                     ELSE FeatureAtoms(features)
    IN IF base = {} THEN {}
       ELSE base \cup UNION {Range(names[i]) : i \in 1..Min(2, Len(names))}

FRUIT_CATEGORIES == {"fruit_type", "fruit_cluster", "fruit_surface", "calyx_persistent"}

\* the fruit-only recall runs for two fruit features or more
FruitRecallTriggered(features) ==
    Cardinality({i \in DOMAIN features :
                    InFeatureIndex(features[i]) /\ FeatureInfo(features[i]).category \in FRUIT_CATEGORIES}) >= 2

\* ------------------------------------------------------ blend weights
EMBEDDING_WEIGHT == 7800
FEATURE_WEIGHT == 2200

\* the "weights" of a request body: absent, or the two numbers given
NoWeights == [absent |-> TRUE, embedding |-> 0, feature |-> 0]

WeightsOf(e, f) == [absent |-> FALSE, embedding |-> e, feature |-> f]

\* the weights the requests of the model ask for: none, 0.5 / 0.5,
\* 0.99 / 0.01, 0.2 / 0.8, 0 / 0
WeightInputs ==
    {NoWeights, WeightsOf(5000, 5000), WeightsOf(9900, 100), WeightsOf(2000, 8000), WeightsOf(0, 0)}

\* resolve_weights(weights): the pair normalised, each weight held in
\* [0.1, 0.9], normalised again; the defaults for no weights or a total
\* that is not positive
resolve_weights(weights) ==
    LET clamp(x) == Max(1000, Min(9000, x))
        norm(e, f) == [embedding |-> (e * SCALE) \div (e + f), feature |-> (f * SCALE) \div (e + f)]
        total == weights.embedding + weights.feature
    IN IF weights.absent \/ total <= 0
       THEN [embedding |-> EMBEDDING_WEIGHT, feature |-> FEATURE_WEIGHT]
       ELSE norm(clamp((weights.embedding * SCALE) \div total),
                 clamp((weights.feature * SCALE) \div total))

\* lines 1007-1022 of hybrid_search on the {"embedding", "feature"} dict it
\* is given (NoWeights: weights=None): embedding_weight held in
\* [0.65, 0.95], feature_weight in [0.05, 0.35] (0 without features), the
\* pair normalised
HybridWeights(weights, features) ==
    LET e0 == IF weights.absent THEN EMBEDDING_WEIGHT ELSE weights.embedding
        f0 == IF weights.absent THEN FEATURE_WEIGHT ELSE weights.feature
        e1 == Max(6500, Min(9500, IF features = <<>> THEN SCALE ELSE e0))
        f1 == IF features = <<>> THEN 0 ELSE Max(500, Min(3500, f0))
    IN [embedding_weight |-> (e1 * SCALE) \div (e1 + f1),
        feature_weight |-> (f1 * SCALE) \div (e1 + f1)]

\* the weights hybrid_search works with for a call of the given entry
\* point: do_POST resolves the weights of the body first
EffectiveWeights(entry, weights, features) ==
    LET given(w) == WeightsOf(w.embedding, w.feature)
    IN IF entry = "http" THEN HybridWeights(given(resolve_weights(weights)), features)
       ELSE HybridWeights(weights, features)

\* ------------------------------------------------------ merge and scoring
\* candidate_dict[key] = c on an insertion-ordered dict, given as the
\* sequence of its values: an existing key keeps its position
DictPut(d, c) ==
    LET at == {i \in DOMAIN d : DedupKey(d[i]) = DedupKey(c)}
    IN IF at = {} THEN Append(d, c)
       ELSE [i \in DOMAIN d |-> IF i \in at THEN c ELSE d[i]]

\* the fruit-only rule: a new key is added, a known key keeps the higher
\* similarity (the primary one on a tie)
DictPutHigher(d, c) ==
    LET at == {i \in DOMAIN d : DedupKey(d[i]) = DedupKey(c)}
    IN IF at = {} THEN Append(d, c)
       ELSE [i \in DOMAIN d |-> IF i \in at /\ c.score > d[i].score THEN c ELSE d[i]]

RECURSIVE MergeInto(_, _, _)
MergeInto(d, cs, primary) ==
    IF cs = <<>> THEN d
    ELSE MergeInto(IF primary THEN DictPut(d, Head(cs)) ELSE DictPutHigher(d, Head(cs)),
                   Tail(cs), primary)

\* lines 1169-1186: list(candidate_dict.values())
MergeCandidateLists(primary, fruit) ==
    MergeInto(MergeInto(<<>>, primary, TRUE), fruit, FALSE)

\* the pool left as it is
PoolFilterKeepsAll(cs, search_query, features) == cs

\* lines 1189-1199: the pool filter, decided on search_query and features
PoolFilter(cs, search_query, features) ==
    IF QueryHasBryoFern(search_query, features) THEN cs
    ELSE FilterSeq(cs, {i \in DOMAIN cs : ~_is_bryophyte_pteridophyte(PayloadOrEmpty(cs[i].payload))})

\* sorted(matched_counts)[len(matched_counts) // 2], 0 for no candidate
MedianMatched(scored) ==
    IF scored = <<>> THEN 0
    ELSE LET n == Len(scored)
             k == (n \div 2) + 1
             cnt(i) == Len(scored[i].matched_features)
         IN CHOOSE v \in {cnt(i) : i \in 1..n} :
               /\ Cardinality({i \in 1..n : cnt(i) < v}) < k
               /\ Cardinality({i \in 1..n : cnt(i) <= v}) >= k

\* ScoreOne whose branch without features leaves must_matched False
ScoreOneGatedByDefault(calc, features, r) ==
    IF r.payload.null
    THEN [raises |-> TRUE]
    ELSE IF features # <<>> /\ calc # "None"
    THEN LET payload == r.payload
             plant_text == payload.summary \cup payload.life_form
             kfn == payload.key_features_norm \cap DOMAIN FEATURE_VOCAB
             entry(match_result, query_total_weight) ==
                 IF match_result.raises THEN [raises |-> TRUE]
                 ELSE [raises |-> FALSE,
                       scored |-> [point |-> r, embedding_score |-> r.score,
                                   feature_score |-> FeatureScore(features, query_total_weight, match_result),
                                   coverage |-> match_result.coverage,
                                   must_matched |-> match_result.must_matched,
                                   matched_features |-> match_result.matched_features]]
         IN entry(match_plant_features(calc, features, plant_text, payload.trait_tokens, kfn),
                  calculate_feature_score(calc, features))
    ELSE [raises |-> FALSE,
          scored |-> [point |-> r, embedding_score |-> r.score, feature_score |-> 0,
                      coverage |-> 0, must_matched |-> FALSE, matched_features |-> <<>>]]

\* The body of the first loop for one candidate r that passed the filters:
\* [raises, scored], scored the dictionary appended to scored_candidates
ScoreOne(calc, features, r) ==
    IF r.payload.null
    THEN [raises |-> TRUE]
    ELSE IF features # <<>> /\ calc # "None"
    THEN LET payload == r.payload
             plant_text == payload.summary \cup payload.life_form
             kfn == payload.key_features_norm \cap DOMAIN FEATURE_VOCAB
             entry(match_result, query_total_weight) ==
                 IF match_result.raises THEN [raises |-> TRUE]
                 ELSE [raises |-> FALSE,
                       scored |-> [point |-> r, embedding_score |-> r.score,
                                   feature_score |-> FeatureScore(features, query_total_weight, match_result),
                                   coverage |-> match_result.coverage,
                                   must_matched |-> match_result.must_matched,
                                   matched_features |-> match_result.matched_features]]
         IN entry(match_plant_features(calc, features, plant_text, payload.trait_tokens, kfn),
                  calculate_feature_score(calc, features))
    ELSE [raises |-> FALSE,
          scored |-> [point |-> r, embedding_score |-> r.score, feature_score |-> 0,
                      coverage |-> 0, must_matched |-> TRUE, matched_features |-> <<>>]]

\* the row the second loop appends to results (id names the point the row
\* was built from)
ResultRow(q, c) ==
    [ id |-> c.point.id,
      chinese_name |-> c.point.payload.chinese_name,
      scientific_name |-> c.point.payload.scientific_name,
      family |-> c.point.payload.family,
      genus |-> c.point.payload.genus,
      score |-> ApplyChain(GateChain, q, c, 0),
      embedding_score |-> c.embedding_score,
      feature_score |-> c.feature_score,
      coverage |-> c.coverage,
      must_matched |-> c.must_matched,
      matched_features |-> c.matched_features ]

\* the row of search_plants
SearchRow(r) ==
    [ id |-> r.id,
      chinese_name |-> r.payload.chinese_name,
      scientific_name |-> r.payload.scientific_name,
      family |-> r.payload.family,
      genus |-> r.payload.genus,
      score |-> r.score ]

RECURSIVE DedupFirst(_, _, _)
\* search_plants, lines 650-661: the first point of each key, top_k at most
DedupFirst(raw, out, top_k) ==
    IF raw = <<>> \/ Len(out) >= top_k THEN out
    ELSE IF \E i \in DOMAIN out : DedupKey(out[i]) = DedupKey(Head(raw))
         THEN DedupFirst(Tail(raw), out, top_k)
         ELSE DedupFirst(Tail(raw), Append(out, Head(raw)), top_k)

\* candidate_limit of hybrid_search: max(100, top_k * 10)
CandidateLimit(top_k) == Max(100, top_k * 10)

\* results[:top_k]: a negative top_k counts from the end of the list
TopK(rows, top_k) ==
    IF top_k >= 0
    THEN SubSeq(rows, 1, Min(top_k, Len(rows)))
    ELSE SubSeq(rows, 1, Max(0, Len(rows) + top_k))

\* --------------------------------------------------------- state machine
vars == <<call, qdrant_client, feature_calculator, pc, candidates, fruit_candidates,
          scored_candidates, results, response, embed_calls, query_vector, store_calls, failure,
          category_embeddings, classification, trace, side_vars>>

NoResponse == [status |-> "none", error |-> FALSE, results |-> <<>>]

Init ==
    /\ call \in Calls
    /\ qdrant_client \in BOOLEAN
    /\ feature_calculator \in CalculatorStates
    /\ category_embeddings \in IF call.entry \in {"smart", "classify"}
                               THEN {NoCentroids, Centroids(CATEGORY_ORDER)}
                               ELSE {Centroids(CATEGORY_ORDER)}
    /\ classification = NoClassification
    /\ SideIdle
    /\ pc = "recv"
    /\ candidates = <<>>
    /\ fruit_candidates = <<>>
    /\ scored_candidates = <<>>
    /\ results = <<>>
    /\ response = NoResponse
    /\ embed_calls = 0
    /\ query_vector = 0
    /\ store_calls = 0
    /\ failure = "none"
    /\ trace = <<>>

Features == call.req.features

\* the context of the gates: the query argument as a text, the features,
\* the traits and the median of the matched counts
GateContext ==
    [query |-> TextOf(QueryArg(call)), features |-> Features, traits |-> call.req.traits,
     median_matched |-> MedianMatched(scored_candidates)]

\* hybrid_search returns rows: the handler answers 200 with them
Returned(rows) ==
    [status |-> IF call.entry = "direct" THEN "return" ELSE "200", error |-> FALSE, results |-> rows]

\* an exception leaves hybrid_search: the handler answers 500
Raised ==
    [status |-> IF call.entry = "direct" THEN "raise" ELSE "500", error |-> TRUE, results |-> <<>>]

\* AfterScroll without the guard on an empty search_query
AfterScrollUnguarded ==
    /\ pc' = "encode"
    /\ UNCHANGED response

\* where hybrid_search goes once the keyword scroll is over (lines
\* 1069-1077): it returns [] for an empty search_query
AfterScroll ==
    IF SearchQuery(QueryArg(call), Features, call.req.guess_names) = {}
    THEN /\ pc' = "done"
         /\ response' = Returned(<<>>)
    ELSE /\ pc' = "encode"
         /\ UNCHANGED response

\* do_POST /hybrid-search up to the call of hybrid_search, and hybrid_search
\* up to its first remote call
Receive ==
    /\ pc = "recv"
    /\ call.entry \in {"http", "direct"}
    /\ IF call.entry = "http" /\ call.req.query = <<>> /\ Features = <<>> /\ call.req.guess_names = <<>>
       THEN /\ pc' = "done"
            /\ response' = [status |-> "400", error |-> TRUE, results |-> <<>>]
            /\ UNCHANGED failure
       ELSE IF ~qdrant_client
       THEN /\ pc' = "done"
            /\ response' = Returned(<<>>)
            /\ failure' = "qdrant_client"
       ELSE IF CleanGuessNames(call.req.guess_names) # <<>>
       THEN /\ pc' = "scroll"
            /\ UNCHANGED <<response, failure>>
       ELSE /\ AfterScroll
            /\ UNCHANGED failure
    /\ UNCHANGED <<call, qdrant_client, feature_calculator, category_embeddings, classification, side_vars, candidates, fruit_candidates,
                   scored_candidates, results, embed_calls, query_vector, store_calls, trace>>

\* lines 1034-1063: the scroll of the collection; keyword_matched_ids feeds
\* a log line only, and a failure of the scroll is caught
KeywordScroll ==
    /\ pc = "scroll"
    /\ store_calls' = store_calls + 1
    /\ AfterScroll
    /\ UNCHANGED <<call, qdrant_client, feature_calculator, category_embeddings, classification, side_vars, candidates, fruit_candidates,
                   scored_candidates, results, embed_calls, query_vector, failure, trace>>

\* the configured dimensionality, line 48 with the default of line 47
EMBEDDING_DIM == 1024

\* the default dimensionality of a model other than jina-embeddings-v3
OTHER_MODEL_DIM == 768

\* the lengths of the vector encode_text returns: the Jina API is asked for
\* 1024 dimensions whatever EMBEDDING_DIM is (line 176), the local model
\* gives the dimensions it has (lines 206 and 211)
VectorLengths == {EMBEDDING_DIM, OTHER_MODEL_DIM}

\* lines 1106-1115: encode_text(search_query); the vector is made a list,
\* its length is not looked at
EncodeQuery ==
    /\ pc = "encode"
    /\ embed_calls' = embed_calls + 1
    /\ \E ok \in BOOLEAN, length \in VectorLengths :
         IF ok
         THEN /\ pc' = "query_points"
              /\ query_vector' = length
              /\ UNCHANGED <<response, failure>>
         ELSE /\ pc' = "done"
              /\ response' = Returned(<<>>)
              /\ failure' = "encode_text"
              /\ UNCHANGED query_vector
    /\ UNCHANGED <<call, qdrant_client, feature_calculator, category_embeddings, classification, side_vars, candidates, fruit_candidates,
                   scored_candidates, results, store_calls, trace>>

\* lines 1122-1138: query_points; an exception and an empty answer both
\* return []
QueryPoints ==
    /\ pc = "query_points"
    /\ store_calls' = store_calls + 1
    /\ query_vector' = 0
    /\ \E ok \in BOOLEAN, pool \in Pools :
         IF ~ok
         THEN /\ pool = <<>>
              /\ pc' = "done"
              /\ response' = Returned(<<>>)
              /\ failure' = "query_points"
              /\ UNCHANGED candidates
         ELSE IF pool = <<>>
         THEN /\ pc' = "done"
              /\ response' = Returned(<<>>)
              /\ UNCHANGED <<failure, candidates>>
         ELSE /\ candidates' = pool
              /\ pc' = IF FruitRecallTriggered(Features) THEN "fruit" ELSE "merge"
              /\ UNCHANGED <<response, failure>>
    /\ UNCHANGED <<call, qdrant_client, feature_calculator, category_embeddings, classification, side_vars, fruit_candidates,
                   scored_candidates, results, embed_calls, trace>>

\* lines 1142-1167: the fruit-only recall; a failure of its encode_text or
\* of its query_points is caught and leaves the list empty
FruitRecall ==
    /\ pc = "fruit"
    /\ embed_calls' = embed_calls + 1
    /\ \E encoded \in BOOLEAN, ok \in BOOLEAN, pool \in FruitPools :
         /\ ~encoded => ~ok
         /\ ~ok => pool = <<>>
         /\ store_calls' = IF encoded THEN store_calls + 1 ELSE store_calls
         /\ fruit_candidates' = pool
    /\ pc' = "merge"
    /\ UNCHANGED <<call, qdrant_client, feature_calculator, category_embeddings, classification, side_vars, candidates, scored_candidates,
                   results, response, query_vector, failure, trace>>

\* lines 1169-1199: the two lists merged by canonical key, then the pool
\* filter
MergeCandidates ==
    /\ pc = "merge"
    /\ candidates' = PoolFilter(MergeCandidateLists(candidates, fruit_candidates),
                                SearchQuery(QueryArg(call), Features, call.req.guess_names), Features)
    /\ trace' = trace \o << <<"dedup", "*">>, <<"bryo_filter", "*">> >>
    /\ pc' = "score"
    /\ UNCHANGED <<call, qdrant_client, feature_calculator, category_embeddings, classification, side_vars, fruit_candidates, scored_candidates,
                   results, response, embed_calls, query_vector, store_calls, failure>>

RECURSIVE ScoreLoop(_, _)
\* lines 1270-1417: the first loop over the candidates rest, st the
\* [raises, scored, log] reached so far.  A non-species entry and a key
\* already seen are skipped; an exception ends the loop.
ScoreLoop(rest, st) ==
    IF rest = <<>> \/ st.raises THEN st
    ELSE LET r == Head(rest)
             skipped == _is_non_species(PayloadOrEmpty(r.payload))
             step(seen, one) ==
                 IF skipped
                 THEN [st EXCEPT !.log = @ \o << <<"non_species", r.id>> >>]
                 ELSE IF seen \/ one.raises
                 THEN [st EXCEPT !.raises = ~seen,
                                 !.log = @ \o << <<"non_species", r.id>>, <<"seen_canonical", r.id>> >>]
                 ELSE [st EXCEPT !.scored = Append(@, one.scored),
                                 !.log = @ \o << <<"non_species", r.id>>, <<"seen_canonical", r.id>>,
                                                 <<"feature_score", r.id>> >>]
         IN ScoreLoop(Tail(rest),
                      step(\E i \in DOMAIN st.scored : DedupKey(st.scored[i].point) = DedupKey(r),
                           ScoreOne(feature_calculator, Features, r)))

\* The first loop.  An exception raised while a candidate is scored leaves
\* hybrid_search.
ScoreCandidates ==
    /\ pc = "score"
    /\ LET leave(st) ==
               /\ trace' = trace \o st.log
               /\ IF st.raises
                  THEN /\ pc' = "done"
                       /\ response' = Raised
                       /\ UNCHANGED scored_candidates
                  ELSE /\ pc' = "rank"
                       /\ scored_candidates' = st.scored
                       /\ UNCHANGED response
       IN leave(ScoreLoop(candidates, [raises |-> FALSE, scored |-> <<>>, log |-> <<>>]))
    /\ UNCHANGED <<call, qdrant_client, feature_calculator, category_embeddings, classification, side_vars, candidates, fruit_candidates,
                   results, embed_calls, query_vector, store_calls, failure>>

RECURSIVE StageLog(_)
\* the stages of the second loop, candidate after candidate
StageLog(scored) ==
    IF scored = <<>> THEN <<>>
    ELSE [i \in DOMAIN GateChain |-> <<GateChain[i], Head(scored).point.id>>] \o StageLog(Tail(scored))

\* lines 1436-1540: the second loop, the stages of GateChain in order on
\* each candidate
RankCandidates ==
    /\ pc = "rank"
    /\ results' = [i \in DOMAIN scored_candidates |-> ResultRow(GateContext, scored_candidates[i])]
    /\ trace' = trace \o StageLog(scored_candidates)
    /\ pc' = "finish"
    /\ UNCHANGED <<call, qdrant_client, feature_calculator, category_embeddings, classification, side_vars, candidates, fruit_candidates,
                   scored_candidates, response, embed_calls, query_vector, store_calls, failure>>

\* lines 1543-1561: the known-false-positive penalty, the sort and the
\* slice; the handler sends the rows
Finish ==
    /\ pc = "finish"
    /\ results' = SortByScore([i \in DOMAIN results |-> apply_generic_top1_penalty(results[i])])
    /\ trace' = trace \o << <<"known_fp", "*">>, <<"sort", "*">>, <<"top_k", "*">> >>
    /\ response' = Returned(TopK(results', call.req.top_k))
    /\ pc' = "done"
    /\ UNCHANGED <<call, qdrant_client, feature_calculator, category_embeddings, classification, side_vars, candidates, fruit_candidates,
                   scored_candidates, embed_calls, query_vector, store_calls, failure>>

\* do_POST /search with smart = false: search_plants(query, top_k).  Every
\* exception inside search_plants is caught and returns [].
SearchPlants ==
    /\ \/ pc = "recv" /\ call.entry = "search"
       \/ pc = "search" /\ call.entry = "smart"
    /\ pc' = "done"
    /\ IF call.req.query = <<>>
       THEN /\ response' = [status |-> "400", error |-> TRUE, results |-> <<>>]
            /\ UNCHANGED <<candidates, results, embed_calls, store_calls, failure>>
       ELSE IF ~qdrant_client
       THEN /\ response' = Returned(<<>>)
            /\ failure' = "qdrant_client"
            /\ UNCHANGED <<candidates, results, embed_calls, store_calls>>
       ELSE \E encoded \in BOOLEAN, ok \in BOOLEAN, pool \in Pools :
              /\ ~encoded => ~ok
              /\ ~ok => pool = <<>>
              /\ embed_calls' = embed_calls + 1
              /\ store_calls' = IF encoded THEN store_calls + 1 ELSE store_calls
              /\ failure' = IF ~encoded THEN "encode_text" ELSE IF ~ok THEN "query_points" ELSE "none"
              /\ candidates' = pool
              /\ LET dedup_results == DedupFirst(pool, <<>>, call.req.top_k)
                 IN results' = IF \E i \in DOMAIN dedup_results : dedup_results[i].payload.null
                               THEN <<>>
                               ELSE SortByScore([i \in DOMAIN dedup_results |->
                                        apply_generic_top1_penalty(SearchRow(dedup_results[i]))])
              /\ response' = Returned(results')
    /\ UNCHANGED <<call, qdrant_client, feature_calculator, category_embeddings, classification, side_vars, fruit_candidates, scored_candidates,
                   query_vector, trace>>

\* smart_search without its test of classification["is_plant"]
SmartSearchesAlways(c) == TRUE

\* smart_search, lines 1576-1580: search_plants runs for a plant query only
SmartSearches(c) == c.is_plant

\* do_POST /search with smart = true and do_POST /classify, up to the end
\* of classify_query.  An exception of encode_text leaves classify_query
\* and the handler, which has no except clause on these paths.
Classify ==
    /\ pc = "recv"
    /\ call.entry \in {"smart", "classify"}
    /\ IF call.req.query = <<>>
       THEN /\ pc' = "done"
            /\ response' = [status |-> "400", error |-> TRUE, results |-> <<>>]
            /\ UNCHANGED <<classification, embed_calls, failure>>
       ELSE IF category_embeddings.none
       THEN /\ classification' = classify_query(category_embeddings, <<>>)
            /\ pc' = "done"
            /\ response' = Returned(<<>>)
            /\ UNCHANGED <<embed_calls, failure>>
       ELSE /\ embed_calls' = embed_calls + 1
            /\ \E encoded \in BOOLEAN, sims \in SimilarityTables :
                 IF ~encoded
                 THEN /\ classification' = [NoClassification EXCEPT !.ran = TRUE, !.raises = TRUE]
                      /\ failure' = "encode_text"
                      /\ pc' = "done"
                      /\ response' = [status |-> "raise", error |-> TRUE, results |-> <<>>]
                 ELSE /\ classification' = classify_query(category_embeddings, sims)
                      /\ UNCHANGED failure
                      /\ IF call.entry = "smart" /\ SmartSearches(classification')
                         THEN /\ pc' = "search"
                              /\ UNCHANGED response
                         ELSE /\ pc' = "done"
                              /\ response' = Returned(<<>>)
    /\ UNCHANGED <<call, qdrant_client, feature_calculator, category_embeddings, candidates, query_vector,
                   fruit_candidates, scored_candidates, results, store_calls, trace,
                   side_vars>>

Next ==
    \/ Classify
    \/ Receive
    \/ KeywordScroll
    \/ EncodeQuery
    \/ QueryPoints
    \/ FruitRecall
    \/ MergeCandidates
    \/ ScoreCandidates
    \/ RankCandidates
    \/ Finish
    \/ SearchPlants

Spec == Init /\ [][Next]_vars

\* ------------------------------------------------ the weight model alone
\* the variables of the server, which the corpus pass does not touch
server_vars ==
    <<call, qdrant_client, feature_calculator, category_embeddings, classification, candidates,
      fruit_candidates, scored_candidates, results, response, embed_calls, query_vector, store_calls, failure,
      trace>>

\* the server before its first request
Idle ==
    /\ call = [entry |-> "none", req |-> Request(<<>>, <<>>, <<>>, DEFAULT_TOP_K, NoTraits)]
    /\ qdrant_client = FALSE
    /\ feature_calculator = "None"
    /\ category_embeddings = NoCentroids
    /\ classification = NoClassification
    /\ candidates = <<>>
    /\ fruit_candidates = <<>>
    /\ scored_candidates = <<>>
    /\ results = <<>>
    /\ response = NoResponse
    /\ embed_calls = 0
    /\ query_vector = 0
    /\ store_calls = 0
    /\ failure = "none"
    /\ trace = <<>>

MaxDf == 3

MaxLoads == 2

\* the sizes of the corpus files the model loads
CorpusSizes == {0, 1, 2, 3, 15, 400}

\* the two vocabulary values whose document frequency the corpus decides
\* (same base_w, same max_cap)
TrackedFeatures == {"husheng", "duisheng"}

\* in how many of the n plants each tracked value was found
MaxFeatures == 2

\* the lists given to calculate_feature_score: two values of one
\* dimension, a value of another one, a life form, a phrase outside the
\* vocabulary and a trait token
FeatureLists ==
    UNION {[1..n -> {Phrase("husheng"), Phrase("duisheng"), Phrase("zihua"), Phrase("caoben"),
                     Phrase("haokan"), Tok("leaf_arrangement", "opposite")}] : n \in 0..MaxFeatures}

CorpusCounts(n) == [TrackedFeatures -> {d \in 0..n : d <= MaxDf \/ d = n}]

WeightsInit ==
    /\ Idle
    /\ pc = "load"
    /\ SideIdle

\* a calculator with the file read and nothing counted yet
FreshCalculator ==
    /\ N' = 0
    /\ df' = <<>>
    /\ rare_coef' = <<>>

\* FeatureWeightCalculator() made anew for the same data file, lines
\* 158-162; the caller runs load_and_calculate next
NewCalculator ==
    /\ pc = "loaded"
    /\ loads < MaxLoads
    /\ FreshCalculator
    /\ got_weight' = NoWeight
    /\ feature_info' = NoFeatureInfo
    /\ pc' = "load"
    /\ UNCHANGED <<corpus_file, loads, tokenized, dedup_vars, init_pc, req, server_vars>>

\* self.df[feature] += 1 for every plant the value is found in, on the
\* dictionary as the call finds it
CountInto(old, counts) ==
    [f \in DOMAIN old \cup {g \in DOMAIN counts : counts[g] > 0} |->
        (IF f \in DOMAIN old THEN old[f] ELSE 0) + (IF f \in DOMAIN counts THEN counts[f] ELSE 0)]

\* FeatureWeightCalculator.load_and_calculate on a corpus of n plants, on
\* a new calculator or once more on the same one: self.N is set, self.df
\* is added to, self.rare_coef gets a coefficient for each key of self.df.
\* The first pass picks the data file, the later ones read the same file.
load_and_calculate ==
    /\ pc \in {"load", "loaded"}
    /\ loads < MaxLoads
    /\ \E n \in CorpusSizes : \E counts \in CorpusCounts(n) :
         /\ loads > 0 => (n = corpus_file.n /\ counts = corpus_file.counts)
         /\ corpus_file' = [n |-> n, counts |-> counts]
         /\ N' = n
         /\ df' = CountInto(df, counts)
         /\ rare_coef' = [f \in DOMAIN df' |-> RareCoef(n, df'[f])]
    /\ loads' = loads + 1
    /\ pc' = "loaded"
    /\ UNCHANGED <<got_weight, feature_info, tokenized, dedup_vars, init_pc, req, server_vars>>

\* calculator.get_weight(feature_name) on the loaded calculator
GetWeight ==
    /\ pc = "loaded"
    /\ \E f \in TrackedFeatures \cup {"zihua", "haokan", "cluster"} :
         got_weight' = [asked |-> TRUE, feature |-> f, weight |-> get_weight("corpus", Phrase(f))]
    /\ UNCHANGED <<pc, N, df, rare_coef, feature_info, corpus_file, loads, tokenized, dedup_vars,
                   init_pc, req, server_vars>>

\* calculator.calculate_feature_score(features) on the loaded calculator
CalculateFeatureScore ==
    /\ pc = "loaded"
    /\ \E fs \in FeatureLists :
         feature_info' = [asked |-> TRUE, features |-> fs,
                          total_score |-> calculate_feature_score("corpus", fs)]
    /\ UNCHANGED <<pc, N, df, rare_coef, got_weight, corpus_file, loads, tokenized, dedup_vars,
                   init_pc, req, server_vars>>

WeightsNext ==
    \/ NewCalculator
    \/ load_and_calculate
    \/ GetWeight
    \/ CalculateFeatureScore

SpecWeights == WeightsInit /\ [][WeightsNext]_vars

\* -------------------------------------------------- the tokenizer alone
MaxKeyFeatures == 2

\* the phrases given to the tokenizer: synonyms of the vocabulary, a
\* synonym with a full stop, a synonym with a suffix or a prefix, a phrase
\* that only contains a cue, a phrase of the pattern rules, an unknown
\* phrase, the empty string and a lone full stop
KeyFeaturePhrases ==
    {"caoben", "qiaomu", "husheng", "duisheng", "quanyuan", "zihua", "duisheng.", "hushengye",
     "xiaoqiaomu", "yehusheng", "juchi", "haokan", "", "."}

KeyFeatureLists == UNION {[1..n -> KeyFeaturePhrases] : n \in 0..MaxKeyFeatures}

TokenizerInit ==
    /\ Idle
    /\ pc = "tokenize"
    /\ SideIdle

\* one call of key_features_to_trait_tokens(key_features); mapped keeps
\* what the loop got for each feature
Tokenize ==
    /\ pc = "tokenize"
    /\ \E kfs \in KeyFeatureLists :
         tokenized' =
             [key_features |-> kfs,
              mapped |-> [i \in DOMAIN kfs |-> MapKeyFeature(Phrase(kfs[i]))],
              trait_tokens |-> key_features_to_trait_tokens([i \in DOMAIN kfs |-> Phrase(kfs[i])])]
    /\ pc' = "tokenized"
    /\ UNCHANGED <<weights_vars, dedup_vars, init_pc, req, server_vars>>

TokenizerNext == Tokenize

SpecTokenizer == TokenizerInit /\ [][TokenizerNext]_vars


\* ------------------------------------- the embedding script's dedup pass
MaxPlants == 3

\* a line of the data file: the identity fields and the length of
\* identification.summary
Plant(cname, sci, summary) ==
    [chinese_name |-> cname, scientific_name |-> sci, family |-> "", genus |-> "",
     summary |-> summary, not_str |-> {}]

\* the records of the data files of the model: two records of one species
\* with the same summary length, a variety of it with a longer summary, a
\* second species, a record with no identity field at all, a record named
\* by its genus alone, a record whose scientific name is a lone quote, with
\* a family and a genus, and a record whose scientific_name is a JSON
\* number (not_str: the fields that hold a value that is true and is not a
\* string)
PlantRecords ==
    { Plant(<<"rong", "shu4">>, <<"Ficus", "microcarpa">>, 2),
      Plant(<<"zheng", "rong">>, <<"Ficus", "microcarpa">>, 2),
      Plant(<<"rong", "shu4">>, <<"Ficus", "microcarpa", "var.", "fujianensis">>, 5),
      Plant(<<"ma", "ying", "dan">>, <<"Lantana", "camara">>, 0),
      Plant(<<>>, <<>>, 1),
      Plant(<<"rong", "shu4">>, <<"Ficus">>, 1),
      [Plant(<<"rong", "-", "shu4">>, <<"'">>, 1) EXCEPT !.family = "Moraceae", !.genus = "Ficus"],
      [Plant(<<"rong", "shu4">>, <<>>, 1) EXCEPT !.not_str = {"scientific_name"}] }

PlantFiles == UNION {[1..n -> PlantRecords] : n \in 0..MaxPlants}

\* get_canonical_key(plant): the code of _canonical_name, word for word
get_canonical_key(plant) == _canonical_name(plant)

\* (plant.get(field) or "").strip() raises AttributeError on a value that
\* is true and has no strip: scientific_name is read first, the three
\* other fields only when the scientific name gave no key
KeyRaises(plant) ==
    \/ "scientific_name" \in plant.not_str
    \/ /\ \/ plant.scientific_name = <<>>
          \/ _normalize_scientific_name(plant.scientific_name) = <<>>
       /\ plant.not_str \cap {"chinese_name", "family", "genus"} # {}

\* list.remove(x): the first element equal to x leaves the list
RemoveFirst(list, x) ==
    LET at == {i \in DOMAIN list : list[i] = x}
        first(i) == [j \in 1..(Len(list) - 1) |-> IF j < i THEN list[j] ELSE list[j + 1]]
    IN IF at = {} THEN list ELSE first(CHOOSE i \in at : \A j \in at : i <= j)

\* the replacement that leaves the record it replaces in the list
ReplaceKeepsExisting(list, existing, plant) == Append(list, plant)

\* lines 468-471: the record of higher quality takes the place of the one
\* kept so far, at the end of the list
Replace(list, existing, plant) == Append(RemoveFirst(list, existing), plant)

\* the comparison that lets a record of equal quality take the place
HigherQualityOrEqual(plant, existing) == plant.summary >= existing.summary

\* lines 463-468: new_quality > existing_quality, the lengths of the two
\* identification.summary
HigherQuality(plant, existing) == plant.summary > existing.summary

RECURSIVE DedupLoop(_, _)
\* lines 449-471: the loop over plants; st holds canonical_seen (key |->
\* record), deduplicated_plants and duplicates_removed
DedupLoop(rest, st) ==
    IF rest = <<>> THEN st
    ELSE LET plant == Head(rest)
             step(canonical_key) ==
                 IF canonical_key = <<>>
                 THEN [st EXCEPT !.deduplicated_plants = Append(@, plant)]
                 ELSE IF canonical_key \notin DOMAIN st.canonical_seen
                 THEN [st EXCEPT !.canonical_seen = canonical_key :> plant @@ @,
                                 !.deduplicated_plants = Append(@, plant)]
                 ELSE IF HigherQuality(plant, st.canonical_seen[canonical_key])
                 THEN [st EXCEPT !.canonical_seen = canonical_key :> plant @@ @,
                                 !.deduplicated_plants =
                                     Replace(@, st.canonical_seen[canonical_key], plant),
                                 !.duplicates_removed = @ + 1]
                 ELSE [st EXCEPT !.duplicates_removed = @ + 1]
         IN DedupLoop(Tail(rest), step(get_canonical_key(plant)))

DedupInit ==
    /\ Idle
    /\ pc = "load"
    /\ SideIdle

\* load_plants: the first run reads a data file as it comes, a later run
\* reads EMBED_DEDUP_FILE, which the run before wrote
load_plants ==
    /\ pc = "load"
    /\ passes < 2
    /\ IF passes = 0 THEN plants' \in PlantFiles ELSE plants' = deduplicated_plants
    /\ pc' = "dedup"
    /\ UNCHANGED <<canonical_seen, deduplicated_plants, duplicates_removed, passes, weights_vars,
                   tokenized, init_pc, req, server_vars>>

\* lines 448-480 of main: the pass, and its result written to
\* EMBED_DEDUP_FILE; an exception of get_canonical_key is caught nowhere
\* and ends the script before the file is written
Deduplicate ==
    /\ pc = "dedup"
    /\ IF \E i \in DOMAIN plants : KeyRaises(plants[i])
       THEN /\ pc' = "raised"
            /\ UNCHANGED <<canonical_seen, deduplicated_plants, duplicates_removed, passes>>
       ELSE /\ LET leave(st) ==
                      /\ canonical_seen' = st.canonical_seen
                      /\ deduplicated_plants' = st.deduplicated_plants
                      /\ duplicates_removed' = st.duplicates_removed
               IN leave(DedupLoop(plants, [canonical_seen |-> <<>>, deduplicated_plants |-> <<>>,
                                           duplicates_removed |-> 0]))
            /\ passes' = passes + 1
            /\ pc' = "load"
    /\ UNCHANGED <<plants, weights_vars, tokenized, init_pc, req, server_vars>>

DedupNext ==
    \/ load_plants
    \/ Deduplicate

SpecDedup == DedupInit /\ [][DedupNext]_vars

\* ------------------------------- initialisation beside a served request
\* what the threads of this part leave alone
quiet_vars ==
    <<call, qdrant_client, feature_calculator, candidates, fruit_candidates, scored_candidates,
      results, embed_calls, query_vector, store_calls, trace, weights_vars, tokenized, dedup_vars>>

\* the process has just started: globals None, no thread yet
BootInit ==
    /\ Idle
    /\ pc = "boot"
    /\ SideIdle

\* init(): the daemon thread is started and the HTTP server begins to
\* serve, each request on a thread of its own
init ==
    /\ pc = "boot"
    /\ init_pc = "unstarted"
    /\ init_pc' = "start"
    /\ pc' = "serve"
    /\ UNCHANGED <<category_embeddings, classification, response, failure, req, quiet_vars>>

\* _init_background_impl, lines 495-522: the one batch call of
\* encode_text; when it raises, the handler sets category_embeddings = None
InitEncode ==
    /\ init_pc = "start"
    /\ \E encoded \in BOOLEAN :
         IF encoded
         THEN /\ init_pc' = "encoded"
              /\ UNCHANGED category_embeddings
         ELSE /\ init_pc' = "failed"
              /\ category_embeddings' = NoCentroids
    /\ UNCHANGED <<pc, classification, response, failure, req, quiet_vars>>

\* line 538: category_embeddings = {} binds the global to an empty dict
InitPublish ==
    /\ init_pc = "encoded"
    /\ category_embeddings' = Centroids(<<>>)
    /\ init_pc' = "fill"
    /\ UNCHANGED <<pc, classification, response, failure, req, quiet_vars>>

\* lines 539-542: one turn of the loop stores the centroid of the next
\* category in the global dict
InitFillCategory ==
    /\ init_pc = "fill"
    /\ LET cats == category_embeddings.cats
       IN /\ category_embeddings' = Centroids(Append(cats, CATEGORY_ORDER[Len(cats) + 1]))
          /\ init_pc' = IF Len(cats) + 1 = Len(CATEGORY_ORDER) THEN "done" ELSE "fill"
    /\ UNCHANGED <<pc, classification, response, failure, req, quiet_vars>>

\* classify_query, lines 582-590: the test of the global; None is answered
\* at once
ReqCheck ==
    /\ pc = "serve"
    /\ req.pc = "idle"
    /\ IF category_embeddings.none
       THEN /\ classification' = classify_query(category_embeddings, <<>>)
            /\ response' = [status |-> "200", error |-> FALSE, results |-> <<>>]
            /\ req' = [req EXCEPT !.pc = "answered"]
       ELSE /\ req' = [req EXCEPT !.pc = "encode"]
            /\ UNCHANGED <<classification, response>>
    /\ UNCHANGED <<pc, category_embeddings, failure, init_pc, quiet_vars>>

\* lines 592-602: encode_text(query), then the loop asks the global dict
\* for its items; the iterator notes the size of the dict
ReqEncode ==
    /\ req.pc = "encode"
    /\ \E encoded \in BOOLEAN, sims \in SimilarityTables :
         IF ~encoded
         THEN /\ classification' = [NoClassification EXCEPT !.ran = TRUE, !.raises = TRUE]
              /\ failure' = "encode_text"
              /\ response' = [status |-> "raise", error |-> TRUE, results |-> <<>>]
              /\ req' = [req EXCEPT !.pc = "answered"]
         ELSE /\ req' = [req EXCEPT !.pc = "iterate", !.sims = sims,
                                    !.used = Len(category_embeddings.cats)]
              /\ UNCHANGED <<classification, response, failure>>
    /\ UNCHANGED <<pc, category_embeddings, init_pc, quiet_vars>>

\* lines 602-614: one call of next() on the items iterator.  A dict whose
\* size changed since the iterator was made raises RuntimeError; an item is
\* scored; at the end max(scores) and scores["plant"] are taken on what the
\* loop has read.  No handler catches an exception of classify_query.
ReqNext ==
    /\ req.pc = "iterate"
    /\ IF Len(category_embeddings.cats) # req.used
       THEN /\ classification' = [NoClassification EXCEPT !.ran = TRUE, !.raises = TRUE]
            /\ response' = [status |-> "raise", error |-> TRUE, results |-> <<>>]
            /\ req' = [req EXCEPT !.pc = "answered"]
       ELSE IF req.pos < req.used
       THEN /\ req' = [req EXCEPT !.pos = @ + 1,
                                  !.cats = Append(@, category_embeddings.cats[req.pos + 1])]
            /\ UNCHANGED <<classification, response>>
       ELSE /\ classification' = classify_query(Centroids(req.cats), req.sims)
            /\ response' = IF classification'.raises
                           THEN [status |-> "raise", error |-> TRUE, results |-> <<>>]
                           ELSE [status |-> "200", error |-> FALSE, results |-> <<>>]
            /\ req' = [req EXCEPT !.pc = "answered"]
    /\ UNCHANGED <<pc, category_embeddings, failure, init_pc, quiet_vars>>

BootNext ==
    \/ init
    \/ InitEncode
    \/ InitPublish
    \/ InitFillCategory
    \/ ReqCheck
    \/ ReqEncode
    \/ ReqNext

SpecInit == BootInit /\ [][BootNext]_vars

\* ================================================================ claims
Done == pc = "done"

HybridCall == call.entry \in {"http", "direct"}

\* the payload of the point a row was built from
PayloadOf(row) == Corpus[row.id]

\* ---------------------------------------------------------------- C1
\* C1: every record hybrid_search returns has a final score within [0, 1],
\* whatever the pool, the similarities and the gates that applied.
\* The code clamps from above only (min(1.0, hybrid_score)); a negative
\* cosine similarity goes through every multiplicative penalty and stays
\* negative.
C1_ScoreInUnitInterval ==
    HybridCall =>
        \A i \in DOMAIN response.results :
            0 <= response.results[i].score /\ response.results[i].score <= SCALE

\* ---------------------------------------------------------------- C2
\* the known leaf_arrangement values a list of k=v tokens carries
LeafValues(tokens) ==
    {normalize_token(t).v : t \in {x \in Range(tokens) : IsStr(x) /\ x.k = "leaf_arrangement"}}
        \ {"unknown"}

\* C2: the x0.3 Must-Gate applies to a returned candidate if and only if
\* the query supplies a known leaf_arrangement value and the candidate
\* carries a known, different leaf_arrangement value; never when either
\* side is unknown or missing.
C2_MustGateIffLeafConflict ==
    HybridCall =>
        \A i \in DOMAIN response.results :
            LET row == response.results[i]
                asked == LeafValues(QueryTraitTokens(Features))
                has == LeafValues(PayloadOf(row).trait_tokens)
            IN ~row.must_matched <=> (asked # {} /\ has # {} /\ asked \cap has = {})

\* ---------------------------------------------------------------- C3
\* C3: with a loaded calculator, a query carrying life_form=herb gates a
\* candidate carrying life_form=tree: the row reports must_matched = False
\* and its score is at most 0.3 of its embedding_score.
C3_LifeFormConflictGates ==
    (HybridCall /\ feature_calculator = "loaded" /\ Tok("life_form", "herb") \in Range(Features)) =>
        \A i \in DOMAIN response.results :
            LET row == response.results[i]
            IN Tok("life_form", "tree") \in Range(PayloadOf(row).trait_tokens) =>
                  /\ ~row.must_matched
                  /\ row.embedding_score >= 0 => row.score <= Mul(row.embedding_score, MUST_GATE_PENALTY)

\* ---------------------------------------------------------------- C4
FreeTextOnly == HybridCall /\ Features = <<>> /\ TextOf(call.req.query) # {}

\* C4 as stated: free text and no structured trait: every returned record
\* has final score exactly its embedding_score.
C4_ScoreEqualsEmbedding ==
    FreeTextOnly =>
        \A i \in DOMAIN response.results :
            response.results[i].score = response.results[i].embedding_score

\* no adjustment that is independent of the structured traits applies to
\* the row: palm gate (either direction), soft contradiction of the traits
\* dictionary, bryophyte gate, quality scaling, generic blacklist
Unadjusted(row) ==
    LET payload == PayloadOf(row)
        query == TextOf(QueryArg(call))
    IN /\ QueryHasPalmCompound(query, Features) = _plant_has_palm_compound(payload)
       /\ compute_soft_contradiction_penalty(call.req.traits, payload) = <<>>
       /\ QueryHasBryoFern(query, Features) \/ ~_is_bryophyte_pteridophyte(payload)
       /\ ~(0 < payload.quality_score /\ payload.quality_score < SCALE)
       /\ row.chinese_name \notin GENERIC_TOP1_BLACKLIST

\* C4 amended: free text and no structured trait: every returned record
\* has feature_score 0 and passes the Must-Gate, and its final score is
\* exactly its embedding_score unless a trait-independent adjustment
\* applies to it.
C4_ScoreEqualsEmbeddingUnlessAdjusted ==
    FreeTextOnly =>
        \A i \in DOMAIN response.results :
            LET row == response.results[i]
            IN /\ row.feature_score = 0
               /\ row.must_matched
               /\ Unadjusted(row) => row.score = row.embedding_score

C4_Witness ==
    /\ Done /\ FreeTextOnly
    /\ \E i \in DOMAIN response.results : Unadjusted(response.results[i])
    /\ \E i \in DOMAIN response.results :
          /\ ~Unadjusted(response.results[i])
          /\ response.results[i].score # response.results[i].embedding_score

\* ---------------------------------------------------------------- C5
\* C5: no list returned by hybrid_search or search_plants holds two records
\* of the same canonical species key (a record without identity fields has
\* no key and is told apart by its id).
C5_NoDuplicateSpecies ==
    \A i, j \in DOMAIN response.results :
        (i # j /\ _canonical_name(response.results[i]) # <<>>) =>
            _canonical_name(response.results[i]) # _canonical_name(response.results[j])

\* Ficus microcarpa came by the primary recall, its variety by the
\* fruit-only recall; one row of the species is returned
C5_Witness ==
    /\ Done
    /\ \E i \in DOMAIN fruit_candidates : fruit_candidates[i].id = "ficus_var"
    /\ \E i \in DOMAIN scored_candidates : scored_candidates[i].point.id = "ficus"
    /\ Cardinality({i \in DOMAIN response.results :
                        _canonical_name(response.results[i]) = <<"ficus", " ", "microcarpa">>}) = 1

\* ---------------------------------------------------------------- C6
\* C6: with n structured traits, n < 4, every candidate's feature_score is
\* at most 0.55 + 0.15 * (n - 1), below the 0.90 cap of n = 4; only a query
\* of 5 traits or more reaches 1.0.
C6_FeatureScoreCapped ==
    \A i \in DOMAIN scored_candidates :
        LET n == Len(Features)
            feature_score == scored_candidates[i].feature_score
        IN /\ n < 4 => feature_score <= 5500 + 1500 * (n - 1) /\ feature_score < 9000
           /\ n = 4 => feature_score <= 9000
           /\ feature_score = SCALE => n >= 5

\* two traits, both matched, the score held at the cap of 0.70
C6_Witness ==
    \E i \in DOMAIN scored_candidates :
        /\ Len(Features) = 2
        /\ Len(scored_candidates[i].matched_features) = 2
        /\ scored_candidates[i].feature_score = 7000

\* ---------------------------------------------------------------- C7
\* two entries of the trace concern the same candidate: the same point, or
\* one of them a stage that runs on the whole list
SameCandidate(i, j) == trace[i][2] = trace[j][2] \/ trace[i][2] = "*" \/ trace[j][2] = "*"

\* the documented position of a stage (0: the document does not list it)
DocumentedRank(stage) ==
    CASE stage = "dedup" -> 1
      [] stage = "non_species" -> 2
      [] stage = "base" -> 3
      [] stage = "must_gate" -> 4
      [] stage \in {"palm_gate", "palm_reverse", "bryo_gate"} -> 5
      [] stage = "soft" -> 6
      [] stage = "known_fp" -> 7
      [] stage = "quality" -> 8
      [] stage = "clamp" -> 9
      [] stage = "sort" -> 10
      [] OTHER -> 0

\* C7 as stated: species dedup, non-species filter, base score, Must-Gate,
\* the palm and bryophyte gates, the soft penalties, known-false-positive
\* suppression, quality scaling, clamp, sort: no later stage runs on a
\* candidate before an earlier one.
C7_DocumentedOrder ==
    \A i, j \in DOMAIN trace :
        (i < j /\ SameCandidate(i, j)
               /\ DocumentedRank(trace[i][1]) # 0 /\ DocumentedRank(trace[j][1]) # 0) =>
            DocumentedRank(trace[i][1]) <= DocumentedRank(trace[j][1])

\* the position of a stage in the order C7 is amended to
AmendedRank(stage) ==
    CASE stage = "dedup" -> 1
      [] stage = "bryo_filter" -> 2
      [] stage = "non_species" -> 3
      [] stage = "seen_canonical" -> 4
      [] stage = "feature_score" -> 5
      [] stage = "base" -> 6
      [] stage = "must_gate" -> 7
      [] stage = "palm_gate" -> 8
      [] stage = "palm_reverse" -> 9
      [] stage = "soft" -> 10
      [] stage = "bryo_gate" -> 11
      [] stage = "quality" -> 12
      [] stage = "over_match" -> 13
      [] stage = "clamp" -> 14
      [] stage = "known_fp" -> 15
      [] stage = "sort" -> 16
      [] stage = "top_k" -> 17

\* C7 amended: species dedup, bryophyte pool filter, non-species filter,
\* base score, Must-Gate, palm gates, soft penalties, bryophyte gate,
\* quality scaling, over-match penalty, upper clamp, known-false-positive
\* suppression, sort: no later stage runs on a candidate before an earlier
\* one.
C7_AmendedOrder ==
    \A i, j \in DOMAIN trace :
        (i < j /\ SameCandidate(i, j)) => AmendedRank(trace[i][1]) < AmendedRank(trace[j][1])

\* a request served to the end with a candidate that went through every
\* stage
C7_Witness ==
    /\ Done
    /\ response.results # <<>>
    /\ \E id \in DOMAIN Corpus :
          \A k \in DOMAIN GateChain : \E i \in DOMAIN trace : trace[i] = <<GateChain[k], id>>
    /\ \E i \in DOMAIN trace : trace[i] = <<"sort", "*">>

\* ---------------------------------------------------------------- C8
\* a candidate of a species whose payload is well formed
WellFormed(c) ==
    /\ ~c.payload.null
    /\ \A i \in DOMAIN c.payload.trait_tokens : IsStr(c.payload.trait_tokens[i])
    /\ ~_is_non_species(c.payload)

\* C8: a candidate whose trait comparison raises never aborts the batch:
\* when a well-formed candidate is in the list, the request is answered
\* normally and the list returned is not empty.
C8_BadCandidateNeverAborts ==
    (Done /\ HybridCall /\ \E i \in DOMAIN candidates : WellFormed(candidates[i])) =>
        /\ response.status \in {"200", "return"}
        /\ response.results # <<>>

\* ---------------------------------------------------------------- C9
\* C9: when the store client is not connected, encode_text fails or
\* query_points raises, the /hybrid-search response carries an explicit
\* failure reason.
C9_FailureHasReason ==
    (Done /\ call.entry = "http" /\ failure # "none") => response.error

\* ---------------------------------------------------------------- C10
\* no text, no traits, no name guesses
EmptyQuery ==
    /\ TextOf(call.req.query) = {}
    /\ Features = <<>>
    /\ \A i \in DOMAIN call.req.guess_names : call.req.guess_names[i] = <<>>

\* C10: a query with no text, no traits and no name guesses is rejected at
\* once: encode_text and the vector store are never called for it, through
\* the handler or through hybrid_search, and its result is empty.
C10_EmptyQueryNoRemoteCall ==
    (HybridCall /\ EmptyQuery) =>
        /\ embed_calls = 0
        /\ store_calls = 0
        /\ pc \in {"recv", "done"}
        /\ response.results = <<>>

\* the empty query got past the handler (whitespace only, or a direct
\* call) with the store connected, and hybrid_search turned it down
C10_Witness ==
    /\ Done /\ HybridCall /\ EmptyQuery
    /\ qdrant_client
    /\ response.status \in {"200", "return"}

C12_ClassifyQuery ==
    (classification.ran /\ ~classification.raises) =>
        IF category_embeddings.none
        THEN /\ classification.category = "unknown"
             /\ ~classification.is_plant
             /\ embed_calls = 0
        ELSE /\ classification.category \in DOMAIN classification.scores
             /\ \A c \in DOMAIN classification.scores :
                    classification.scores[classification.category] >= classification.scores[c]
             /\ classification.is_plant <=> classification.scores["plant"] >= PLANT_THRESHOLD

C12_Witness ==
    /\ call.entry = "classify"
    /\ classification.ran
    /\ classification.category = "animal"
    /\ classification.is_plant
    /\ classification.plant_score = PLANT_THRESHOLD

\* ---------------------------------------------------------------- C13
\* C13: hybrid_search returns at most top_k records for every top_k the
\* caller gives (no record for a top_k below 1), and asks the vector
\* store for at least top_k raw candidates.
C13_AtMostTopK ==
    (HybridCall /\ Done) =>
        /\ Len(response.results) <= Max(0, call.req.top_k)
        /\ CandidateLimit(call.req.top_k) >= call.req.top_k

\* ---------------------------------------------------------------- C14
\* what get_weight must not exceed for a feature name: the max_cap of the
\* value the name stands for, 0 for a name outside the vocabulary
WeightCap(name) == IF name \in DOMAIN FEATURE_INDEX THEN FEATURE_INDEX[name].max_cap ELSE 0

StageOrder == <<"direct", "strip", "contains", "rule">>

C16_DedupIdempotent ==
    (passes = 2 /\ pc = "load") =>
        /\ deduplicated_plants = plants
        /\ duplicates_removed = 0

\* the first run replaced a record by one of higher quality, and the
\* second run has been made on its result
C16_Witness ==
    /\ passes = 2
    /\ pc = "load"
    /\ Len(plants) = 2
    /\ \E i \in DOMAIN plants : plants[i].summary = 5
    /\ \E i \in DOMAIN plants : get_canonical_key(plants[i]) = <<>>

\* C16, the merge of hybrid_search: merging once more the list the merge
\* built gives that list again
C16_MergeIdempotent ==
    pc = "score" => MergeCandidateLists(candidates, <<>>) = candidates

\* ---------------------------------------------------------------- C17
\* C17: of the candidates of the pool that share a canonical species key,
\* the merge keeps the one of highest embedding score, whether they came by
\* the primary recall, the fruit-only recall or both: no candidate fetched
\* has a higher score than the candidate kept under its key.
C17_KeepsHighestScore ==
    [][MergeCandidates =>
          \A i \in DOMAIN candidates' :
              \A c \in Range(candidates) \cup Range(fruit_candidates) :
                  DedupKey(c) = DedupKey(candidates'[i]) => candidates'[i].score >= c.score]_vars


\* ---------------------------------------------------------------- C18
\* C18: the list hybrid_search returns is ordered by final score
\* non-increasing, and two returned records of equal final score appear in
\* the order of their embedding_score, non-increasing.
C18_SortedTiesByEmbedding ==
    (HybridCall /\ Done) =>
        \A i, j \in DOMAIN response.results :
            i < j =>
                /\ response.results[i].score >= response.results[j].score
                /\ response.results[i].score = response.results[j].score =>
                       response.results[i].embedding_score >= response.results[j].embedding_score

\* the first half of C18 alone: final score non-increasing
C18_SortedByScore ==
    (HybridCall /\ Done) =>
        \A i, j \in DOMAIN response.results :
            i < j => response.results[i].score >= response.results[j].score

\* ---------------------------------------------------------------- C19
\* no penalty of any stage applies to the row
NoPenalty(row) ==
    /\ Unadjusted(row)
    /\ row.must_matched
    /\ ~(GateContext.median_matched # 0
         /\ Len(row.matched_features) > Max(GateContext.median_matched * 2, 6))

\* C19: when the query carries structured traits, the two effective weights
\* sum to 1 and each lies in [0.05, 0.95], the score of a candidate before
\* any penalty is embedding_weight * embedding_score + feature_weight *
\* feature_score, and so two returned candidates of equal embedding_score,
\* no penalty and different feature_score have different final scores.
C19_BaseScoreIsBlend ==
    (HybridCall /\ Done /\ Features # <<>>) =>
        \A w \in WeightInputs :
            LET blend(ew) ==
                    /\ ew.embedding_weight + ew.feature_weight = SCALE
                    /\ ew.embedding_weight >= 500 /\ ew.embedding_weight <= 9500
                    /\ ew.feature_weight >= 500 /\ ew.feature_weight <= 9500
                    /\ \A i \in DOMAIN response.results :
                          NoPenalty(response.results[i]) =>
                              response.results[i].score =
                                  Min(SCALE, Mul(ew.embedding_weight, response.results[i].embedding_score)
                                             + Mul(ew.feature_weight, response.results[i].feature_score))
            IN /\ blend(EffectiveWeights(call.entry, w, Features))
               /\ \A i, j \in DOMAIN response.results :
                     ( /\ NoPenalty(response.results[i]) /\ NoPenalty(response.results[j])
                       /\ response.results[i].embedding_score = response.results[j].embedding_score
                       /\ response.results[i].feature_score # response.results[j].feature_score )
                     => response.results[i].score # response.results[j].score

\* the weights alone: they sum to 1 and each lies in [0.05, 0.95] when the
\* query carries structured traits
C19_WeightsNormalised ==
    (HybridCall /\ Done /\ Features # <<>>) =>
        \A w \in WeightInputs :
            LET ok(ew) ==
                    /\ ew.embedding_weight + ew.feature_weight = SCALE
                    /\ ew.embedding_weight >= 500 /\ ew.embedding_weight <= 9500
                    /\ ew.feature_weight >= 500 /\ ew.feature_weight <= 9500
            IN ok(EffectiveWeights(call.entry, w, Features))

\* two returned candidates of equal embedding_score, no penalty, different
\* feature_score and the same final score
C19_SameScore ==
    /\ HybridCall /\ Done /\ Features # <<>>
    /\ \E i, j \in DOMAIN response.results :
          /\ NoPenalty(response.results[i]) /\ NoPenalty(response.results[j])
          /\ response.results[i].embedding_score = response.results[j].embedding_score
          /\ response.results[i].feature_score # response.results[j].feature_score
          /\ response.results[i].score = response.results[j].score


\* ---------------------------------------------------------------- C20
\* C20: while the background initialisation runs beside the requests, a
\* request never observes partially built shared state: the global
\* centroid table is None or the complete table of the five categories,
\* the table is never changed once it is visible, and no request raises
\* for a reason other than its own encode_text.
C20_NoPartialState ==
    /\ [](category_embeddings.none \/ category_embeddings.cats = CATEGORY_ORDER)
    /\ [](req.pc = "answered" /\ response.status = "raise" => failure = "encode_text")
    /\ [][category_embeddings.none \/ category_embeddings' = category_embeddings]_vars

\* a request answered from a table it read before the table was complete
C20_PartialAnswer ==
    /\ req.pc = "answered"
    /\ response.status = "200"
    /\ classification.scores # <<>>
    /\ DOMAIN classification.scores # Range(CATEGORY_ORDER)


\* ---------------------------------------------------------------- C21
\* what one pass over the data file gives a new calculator
SnapshotOf(file) ==
    [df |-> [f \in {g \in DOMAIN file.counts : file.counts[g] > 0} |-> file.counts[f]],
     rare_coef |-> [f \in {g \in DOMAIN file.counts : file.counts[g] > 0} |->
                       RareCoef(file.n, file.counts[f])]]

\* C21: recomputing the weight snapshot is idempotent: after any number of
\* passes over an unchanged corpus, on a new calculator or on the same one,
\* the document frequencies, the rarity coefficients and the weight of
\* every trait value are those of one pass.
C21_RecomputeIdempotent ==
    (pc = "loaded" /\ loads >= 1) =>
        /\ N = corpus_file.n
        /\ df = SnapshotOf(corpus_file).df
        /\ rare_coef = SnapshotOf(corpus_file).rare_coef

\* ---------------------------------------------------------------- C22
\* the rules charged to the i-th scored candidate
SoftOf(i) == compute_soft_contradiction_penalty(call.req.traits, scored_candidates[i].point.payload)

\* the confidence of the query trait reaches the threshold of the rule and
\* the candidate has a known value that conflicts with it
KnownConflict(rule, traits, payload) ==
    CASE rule = "S1" ->
            /\ traits.leaf_arrangement.confidence >= S1_CONF_MIN
            /\ _get_plant_leaf_arrangement(payload) # "None"
            /\ LEAF_ARRANGEMENT_GROUP_IDS[traits.leaf_arrangement.value]
                   # LEAF_ARRANGEMENT_GROUP_IDS[_get_plant_leaf_arrangement(payload)]
      [] rule = "S2" ->
            /\ traits.life_form.confidence >= S2_CONF_MIN
            /\ _get_plant_life_form_group(payload) \notin {"None", traits.life_form.value}
      [] rule = "S3" ->
            /\ traits.leaf_type.confidence >= S3_CONF_MIN
            /\ _get_plant_leaf_type(payload) # "None"
      [] rule = "S4" ->
            /\ traits.flower_color.confidence >= S4_CONF_MIN
            /\ traits.flower_color.value \in {"purple", "pink"}
            /\ _get_plant_flower_color(payload) = "red"

\* the place of the soft stage in the chain
SoftAt == CHOOSE i \in DOMAIN GateChain : GateChain[i] = "soft"

\* the score of the i-th row is what the stages after the soft stage make
\* of the score before it less the sum of the penalties, floored at 0
SoftSubtracted(i) ==
    LET c == scored_candidates[i]
        before == ApplyChain(SubSeq(GateChain, 1, SoftAt - 1), GateContext, c, 0)
    IN results[i].score =
           ApplyChain(SubSeq(GateChain, SoftAt + 1, Len(GateChain)), GateContext, c,
                      IF SoftOf(i) = <<>> THEN before ELSE Max(0, before - SoftTotal(SoftOf(i))))

IsBryo(c) == _is_bryophyte_pteridophyte(PayloadOrEmpty(c.payload))

\* search_query of the request being served
SearchText == SearchQuery(QueryArg(call), Features, call.req.guess_names)

\* the place of the bryophyte gate in the chain
BryoAt == CHOOSE i \in DOMAIN GateChain : GateChain[i] = "bryo_gate"

\* C23: the bryophyte/fern gate is a symmetric penalty: on a query that
\* shows a flower and nothing of a moss or fern, a moss or fern candidate
\* stays in the candidate list (it is penalised, not removed), and on a
\* query that shows a moss or fern the seed-plant candidates are heavily
\* penalised.
C23_SymmetricBryoGate ==
    /\ [][(MergeCandidates /\ InText("hua", TextOf(QueryArg(call)))
                           /\ ~QueryHasBryoFern(SearchText, Features)) =>
              \A c \in Range(candidates) \cup Range(fruit_candidates) :
                  IsBryo(c) => \E i \in DOMAIN candidates' : candidates'[i].id = c.id]_vars
    /\ []((HybridCall /\ pc = "finish" /\ QueryHasBryoFern(GateContext.query, Features)) =>
              \A i \in DOMAIN results :
                  (~IsBryo(scored_candidates[i].point) /\ results[i].embedding_score > 0) =>
                      results[i].score <= Mul(results[i].embedding_score, BRYO_GATE_PENALTY))

\* C23 amended: the gate works one way.  When neither the search query nor
\* the features show a moss or fern, the moss and fern candidates are
\* removed from the pool and the others are all kept; otherwise the pool
\* is kept whole.  A moss or fern candidate that is scored has its score
\* multiplied by 0.06 unless the query text or the features show a moss or
\* fern; a seed-plant candidate gets no penalty from the gate, whatever the
\* query shows.
C23_BryoFilterOneWay ==
    /\ [][MergeCandidates =>
              LET merged == MergeCandidateLists(candidates, fruit_candidates)
              IN IF QueryHasBryoFern(SearchText, Features)
                 THEN candidates' = merged
                 ELSE /\ \A i \in DOMAIN candidates' : ~IsBryo(candidates'[i])
                      /\ \A i \in DOMAIN merged :
                            ~IsBryo(merged[i]) => \E j \in DOMAIN candidates' : candidates'[j] = merged[i]]_vars
    /\ []((HybridCall /\ pc = "finish") =>
              \A i \in DOMAIN results :
                  LET c == scored_candidates[i]
                      before == ApplyChain(SubSeq(GateChain, 1, BryoAt - 1), GateContext, c, 0)
                      gated == IsBryo(c.point) /\ ~QueryHasBryoFern(GateContext.query, Features)
                  IN results[i].score =
                         ApplyChain(SubSeq(GateChain, BryoAt + 1, Len(GateChain)), GateContext, c,
                                    IF gated THEN Mul(before, BRYO_GATE_PENALTY) ELSE before))

\* the moss is scored, at 0.06 of its similarity, on a query that shows a
\* flower and a guessed name of a moss; and on the same query without the
\* guess the moss fetched has left the pool
C23_Witness ==
    /\ HybridCall
    /\ pc = "finish"
    /\ InText("hua", GateContext.query)
    /\ \E i \in DOMAIN results :
          /\ scored_candidates[i].point.id = "moss"
          /\ results[i].embedding_score = 9000
          /\ results[i].score = 540


\* ---------------------------------------------------------------- C24
\* C24: the coverage of a candidate, as match_plant_features returns it
\* and hybrid_search reports it, is the fraction of the query traits
\* matched and lies in [0, 1] for every trait list, lists with repeated
\* traits included.
C24_CoverageInUnitInterval ==
    (HybridCall /\ Done) =>
        \A i \in DOMAIN response.results :
            /\ 0 <= response.results[i].coverage
            /\ response.results[i].coverage <= SCALE


\* ---------------------------------------------------------------- C25
\* the dimensions that score
ScoringCategories ==
    {FEATURE_VOCAB[n].category : n \in DOMAIN FEATURE_VOCAB} \ GATE_ONLY_CATEGORIES

\* the highest weight among the values of the list that belong to the
\* dimension, 0 when there is none
BestOfCategory(features, cat) ==
    LET ws == {get_weight("corpus", features[i]) :
                  i \in {j \in DOMAIN features : /\ InFeatureIndex(features[j])
                                                 /\ FeatureInfo(features[j]).category = cat}}
    IN IF ws = {} THEN 0 ELSE CHOOSE w \in ws : \A v \in ws : v <= w

\* C25: calculate_feature_score returns the sum, over the trait dimensions,
\* of the highest weight among the supplied values of the dimension:
\* several values of one dimension add no more than the best of them, a
\* value of a gate-only dimension adds nothing, a value outside the
\* vocabulary adds nothing.
C25_PerDimensionBest ==
    [][(feature_info' # feature_info /\ feature_info'.asked) =>
          feature_info'.total_score =
              SumOver([cat \in ScoringCategories |-> BestOfCategory(feature_info'.features, cat)],
                      ScoringCategories)]_vars

\* two values of leaf_arrangement of different weight score as the better
\* one alone
C25_Witness ==
    /\ feature_info.asked
    /\ feature_info.features = <<Phrase("husheng"), Phrase("duisheng")>>
    /\ get_weight("corpus", Phrase("husheng")) > get_weight("corpus", Phrase("duisheng"))
    /\ get_weight("corpus", Phrase("duisheng")) > 0
    /\ feature_info.total_score = get_weight("corpus", Phrase("husheng"))


\* ---------------------------------------------------------------- C26
\* the words left of the scientific name of a record after lower-casing,
\* stripping rank markers and quotes and collapsing whitespace
SciWords(plant) == _normalize_scientific_name(plant.scientific_name)

\* the fallback key: the common name without whitespace and hyphens, the
\* family and the genus, those that are not empty, joined by " | "
FallbackKey(plant) ==
    LET name   == SelectSeq(plant.chinese_name, LAMBDA ch : ch \notin {" ", "-", "_"})
        family == IF plant.family = "" THEN <<>> ELSE <<plant.family>>
        genus  == IF plant.genus = "" THEN <<>> ELSE <<plant.genus>>
        parts  == SelectSeq(<<name, family, genus>>, LAMBDA part : part # <<>>)
    IN JoinWith(parts, " | ")

\* C26: when fewer than two words are left of the scientific name, the
\* canonical key is the fallback key built from common name, family and
\* genus, never the lone word; when two or more are left, the key is the
\* first two words.
C26_LoneWordFallsBack ==
    \A key \in DOMAIN canonical_seen :
        LET words(plant) ==
                IF Len(SciWords(plant)) >= 2
                THEN key = <<SciWords(plant)[1], " ", SciWords(plant)[2]>>
                ELSE key = FallbackKey(plant)
        IN words(canonical_seen[key])

\* C26 as the code has it: two or more words left, the key is the first
\* two; one word left, the key is that word; none left, the key is the
\* fallback key.
C26_LoneWordIsKey ==
    \A key \in DOMAIN canonical_seen :
        LET words(plant) ==
                IF Len(SciWords(plant)) >= 2
                THEN key = <<SciWords(plant)[1], " ", SciWords(plant)[2]>>
                ELSE IF Len(SciWords(plant)) = 1
                THEN key = SciWords(plant)
                ELSE key = FallbackKey(plant)
        IN words(canonical_seen[key])

\* one pass has seen the record named by its genus alone, the variety and
\* the record whose scientific name is a lone quote
C26_Witness ==
    /\ <<"ficus">> \in DOMAIN canonical_seen
    /\ <<"ficus", " ", "microcarpa">> \in DOMAIN canonical_seen
    /\ canonical_seen[<<"ficus", " ", "microcarpa">>].summary = 5
    /\ <<"rong", "shu4", " | ", "Moraceae", " | ", "Ficus">> \in DOMAIN canonical_seen


\* ---------------------------------------------------------------- C27
\* a record has a usable scientific name, common name, family or genus
Usable(plant) == SciWords(plant) # <<>> \/ FallbackKey(plant) # <<>>

\* C27: the canonical-key function is total: on every record, a record
\* whose scientific_name, chinese_name, family or genus is missing, null or
\* not a string included, it returns a string and never raises, and the
\* string is empty exactly when the record has no usable scientific name,
\* common name, family or genus.
C27_CanonicalKeyTotal ==
    /\ pc # "raised"
    /\ (pc = "load" /\ passes = 1) =>
           \A i \in DOMAIN plants :
               /\ Usable(plants[i]) <=>
                      \E key \in DOMAIN canonical_seen : get_canonical_key(plants[i]) = key
               /\ ~Usable(plants[i]) => plants[i] \in Range(deduplicated_plants)


\* ---------------------------------------------------------------- C28
\* the positions of the list whose record has the key
WithKey(list, key) == {i \in DOMAIN list : get_canonical_key(list[i]) = key}

\* the first of the records of longest summary among those of the key
FirstLongest(list, key) ==
    list[CHOOSE i \in WithKey(list, key) :
             \A j \in WithKey(list, key) :
                 \/ list[j].summary < list[i].summary
                 \/ list[j].summary = list[i].summary /\ i <= j]

\* C28: the deduplication pass keeps exactly one record for every canonical
\* key of the input that is not empty: of the records of the key the one
\* of longest summary, the first met of them when several are as long; the
\* records of empty key are all kept.
C28_OnePerKeyLongestFirst ==
    (pc = "load" /\ passes >= 1) =>
        /\ \A i \in DOMAIN plants :
               LET one(key) ==
                       key # <<>> =>
                           /\ Cardinality(WithKey(deduplicated_plants, key)) = 1
                           /\ \A j \in WithKey(deduplicated_plants, key) :
                                  deduplicated_plants[j] = FirstLongest(plants, key)
               IN one(get_canonical_key(plants[i]))
        /\ SelectSeq(deduplicated_plants, LAMBDA plant : get_canonical_key(plant) = <<>>)
               = SelectSeq(plants, LAMBDA plant : get_canonical_key(plant) = <<>>)
        /\ Len(deduplicated_plants) + duplicates_removed = Len(plants)

\* two records of one key with summaries as long and a record of empty
\* key went through the pass: the first of the two and the record of empty
\* key are left
C28_Witness ==
    /\ pc = "load"
    /\ passes = 1
    /\ plants = << Plant(<<"zheng", "rong">>, <<"Ficus", "microcarpa">>, 2),
                   Plant(<<>>, <<>>, 1),
                   Plant(<<"rong", "shu4">>, <<"Ficus", "microcarpa">>, 2) >>
    /\ deduplicated_plants = << Plant(<<"zheng", "rong">>, <<"Ficus", "microcarpa">>, 2),
                                Plant(<<>>, <<>>, 1) >>


\* ---------------------------------------------------------------- C29
\* the values that list the string, as their name or as their English
\* label, in vocabulary order
ListedUnder(key) ==
    SelectSeq(FEATURE_ORDER, LAMBDA zh_name : key = zh_name \/ key = FEATURE_VOCAB[zh_name].en)

\* C29: a string listed under more than one vocabulary value (the English
\* label "cluster" of flower_position and of fruit_cluster) is looked up as
\* the first value that lists it, in vocabulary order: the weight
\* get_weight gives for the string is the weight of that first value.  (The
\* reverse map of the tokenizer is built by a loop of the same shape over
\* trait_vocab.json.)
C29_FirstListedWins ==
    (got_weight.asked /\ Len(ListedUnder(got_weight.feature)) > 1) =>
        /\ FEATURE_INDEX[got_weight.feature].name = ListedUnder(got_weight.feature)[1]
        /\ got_weight.weight = get_weight("corpus", Phrase(ListedUnder(got_weight.feature)[1]))


\* ---------------------------------------------------------------- C30
\* C30: a vector of the embedding collaborator whose length is not
\* EMBEDDING_DIM makes the query fail with an explicit error before any
\* similarity search: the vector hybrid_search holds for query_points has
\* the configured length, and no step hands a vector of another length to
\* the store.
C30_DimensionChecked ==
    /\ [](pc = "query_points" => query_vector = EMBEDDING_DIM)
    /\ [][(query_vector # 0 /\ query_vector # EMBEDDING_DIM) =>
              /\ store_calls' = store_calls
              /\ pc' = "done" => response'.error]_vars


====
